---------------------------- MODULE Spec2Model ----------------------------
(***************************************************************************)
(* Model of the tutoring engine of ai-language-coach: the learning        *)
(* progress tracker (utils/learningTracker.js: the persisted UserProgress  *)
(* record, the recordAttempt read-modify-write handler, resetProgress and  *)
(* the reports), the error classifier (utils/errorDetector.js over         *)
(* data/frenchGrammarRules.js), the quiz generator and its answer          *)
(* validation (utils/quizGenerator.js), the retry loop and the provider    *)
(* calls of api/aiService.js with the usage limits of the cost tracker,    *)
(* and the useOpenAI hook (hooks/useOpenAI.js).                            *)
(*                                                                         *)
(* Time is counted in whole hours of local wall-clock time since local     *)
(* midnight of day 0.  Date.prototype.toDateString() prints the LOCAL      *)
(* calendar day, so a day in which the zone changes its UTC offset lasts   *)
(* 23 or 25 hours; the zone is an input of the model (dstShift).           *)
(***************************************************************************)
EXTENDS Integers, Sequences, FiniteSets, TLC

VARIABLES
    localStorage,   \* browser localStorage: key -> stored JSON value (absent key = getItem null)
    now,            \* the system clock read by new Date() / Date.now(), in hours
    dstShift,       \* the time zone: length of day TransitionDay minus 24 hours
    calls,          \* per rule: the recordAttempt calls made since the store was fresh
    practiced,      \* the calendar days on which an attempt was recorded since fresh
    monotone,       \* the clock has not been set back since the store was fresh
    sessions,       \* per browser session: the position of its recordAttempt call
    serial,         \* no session has loaded while another was between load and save
    request,        \* the arguments of the last call of a read-only operation
    response,       \* what that call returned (or that it threw)
    tasks,          \* the asynchronous calls in progress: where each stands, its locals
    trace           \* what those calls have done outside: calls of fn, timers, requests sent

vars == <<localStorage, now, dstShift, calls, practiced, monotone,
          sessions, serial, request, response, tasks, trace>>

\* what the single-session tracker operations leave alone
elsewhere == <<sessions, serial, request, response, tasks, trace>>

---------------------------------------------------------------------------
(* Bounds of the model *)

MaxQuizzes == 11        \* recordAttempt calls explored per store lifetime in Spec
MaxStreakCalls == 4     \* recordAttempt calls explored per store lifetime in SpecStreak
MaxDay == 3             \* calendar days 0..MaxDay

---------------------------------------------------------------------------
(* Program constants and input domains *)

PROGRESS == "ai-language-coach-progress"

Rules == {"contraction-au", "contraction-du"}

PointValues == {10, 600}

Null == <<>>            \* null; a date string is the one-element tuple of its value

MS_PER_DAY_HOURS == 24  \* 86400000 ms

TransitionDay == 1      \* the calendar day whose length is 24 + dstShift hours

Days == 0..MaxDay

---------------------------------------------------------------------------
(* The clock and the local calendar *)

DayLength(d) == IF d = TransitionDay THEN MS_PER_DAY_HOURS + dstShift ELSE MS_PER_DAY_HOURS

RECURSIVE DayStart(_)
DayStart(d) == IF d <= 0 THEN d * MS_PER_DAY_HOURS ELSE DayStart(d - 1) + DayLength(d - 1)

\* new Date(t).toDateString(): the local calendar day containing instant t
\* (days before day 0 are ordinary 24-hour days, numbered -1, -2, ...).
toDateString(t) ==
    IF t < 0 THEN -1 - ((-1 - t) \div MS_PER_DAY_HOURS)
    ELSE CHOOSE d \in 0..(MaxDay + 2) : DayStart(d) <= t /\ t < DayStart(d + 1)

\* The instants at which the model reads the clock: the first and the last
\* hour of every calendar day.
Instants == UNION {{DayStart(d), DayStart(d + 1) - 1} : d \in Days}

---------------------------------------------------------------------------
(* Dates as the tracker stores and compares them *)

\* new Date(t).toISOString(), and new Date(iso) parsing it back: the instant
\* itself, to the millisecond.
toISOString(t) == <<t>>

parseDate(iso) == iso[1]

\* line 125: new Date().toDateString()
today(t) == <<toDateString(t)>>

\* line 126: the calendar day of lastPracticeDate, or null
lastDate(progress) ==
    IF progress.lastPracticeDate # Null
    THEN <<toDateString(parseDate(progress.lastPracticeDate))>>
    ELSE Null

\* line 130: new Date(Date.now() - 86400000).toDateString()
yesterday(t) == <<toDateString(t - MS_PER_DAY_HOURS)>>

---------------------------------------------------------------------------
(* Persistence *)

getItem(key) == IF key \in DOMAIN localStorage THEN localStorage[key] ELSE Null

\* rulesMastery is an object: a mapping whose keys keep the order in which they
\* were first assigned (the order of Object.entries).  The model holds the
\* mapping in rulesMastery and that key order in rulesMasteryKeys.
DefaultProgress ==
    [rulesMastery |-> <<>>,
     rulesMasteryKeys |-> <<>>,
     totalQuizzes |-> 0,
     totalCorrect |-> 0,
     streak |-> 0,
     lastPracticeDate |-> Null,
     level |-> 1,
     experience |-> 0]

\* A stored value is a text: [json |-> v] is the text JSON.stringify(v) wrote,
\* [raw |-> t] any other text t (written by another program, or cut short).
JSONstringify(value) == [json |-> value]

\* JSON.parse(text): the value, or a SyntaxError
JSONparse(text) ==
    IF "json" \in DOMAIN text
    THEN [threw |-> FALSE, value |-> text.json]
    ELSE [threw |-> TRUE]

\* texts that are not JSON; the empty text is falsy and is never parsed
CorruptTexts == {[raw |-> "{\"rulesMastery\":{\"contr"], [raw |-> "undefined"]}

\* if (stored): null and "" are falsy
Truthy(stored) == stored # Null /\ stored # [raw |-> ""]

\* try { if (stored) return JSON.parse(stored) } catch { log }; default structure
getProgressData ==
    LET stored == getItem(PROGRESS)
    IN  IF Truthy(stored) /\ ~JSONparse(stored).threw
        THEN JSONparse(stored).value
        ELSE DefaultProgress

\* a variant that leaves a value it cannot read in place
saveProgressData_KeepUnreadable(data) ==
    IF getItem(PROGRESS) \in CorruptTexts
    THEN localStorage
    ELSE [k \in DOMAIN localStorage \cup {PROGRESS} |->
             IF k = PROGRESS THEN JSONstringify(data) ELSE localStorage[k]]

\* saveProgressData(data): the value of localStorage after setItem
saveProgressData(data) == [k \in DOMAIN localStorage \cup {PROGRESS} |->
                             IF k = PROGRESS THEN JSONstringify(data)
                                             ELSE localStorage[k]]

\* localStorage.removeItem(STORAGE_KEYS.PROGRESS)
removeItem(key) == [k \in DOMAIN localStorage \ {key} |-> localStorage[k]]

---------------------------------------------------------------------------
(* Experience curve *)

RECURSIVE SqrtSearch(_, _, _)
SqrtSearch(n, lo, hi) ==
    IF lo >= hi THEN lo
    ELSE LET mid == (lo + hi + 1) \div 2
         IN  IF mid * mid <= n THEN SqrtSearch(n, mid, hi) ELSE SqrtSearch(n, lo, mid - 1)

\* Math.floor(100 * Math.pow(level, 1.5)) = floor(sqrt(10000 * level^3))
getExperienceForLevel(level) ==
    SqrtSearch(10000 * level * level * level, 0, 100 * level * level)

---------------------------------------------------------------------------
(* recordAttempt, step by step *)

\* lines 91-99: the rule's record, created on first use
NewRuleMastery ==
    [attempts |-> 0, correct |-> 0, level |-> 1, lastPracticed |-> Null, totalPoints |-> 0]

ruleRecord(progress, ruleId) ==
    IF ruleId \in DOMAIN progress.rulesMastery
    THEN progress.rulesMastery[ruleId]
    ELSE NewRuleMastery

\* a variant that counts every attempt as correct
countAttempt_AlwaysCorrect(ruleMastery, correct, points, t) ==
    [ruleMastery EXCEPT
        !.attempts = @ + 1,
        !.correct = @ + 1,
        !.totalPoints = IF correct THEN @ + points ELSE @,
        !.lastPracticed = toISOString(t)]

\* a variant that counts an attempt only when the answer is wrong
countAttempt_AttemptsElse(ruleMastery, correct, points, t) ==
    [ruleMastery EXCEPT
        !.attempts = IF correct THEN @ ELSE @ + 1,
        !.correct = IF correct THEN @ + 1 ELSE @,
        !.totalPoints = IF correct THEN @ + points ELSE @,
        !.lastPracticed = toISOString(t)]

\* lines 101-107: count the attempt
countAttempt(ruleMastery, correct, points, t) ==
    [ruleMastery EXCEPT
        !.attempts = @ + 1,
        !.correct = IF correct THEN @ + 1 ELSE @,
        !.totalPoints = IF correct THEN @ + points ELSE @,
        !.lastPracticed = toISOString(t)]

\* accuracy >= num/den and accuracy < num/den for accuracy = correct / attempts,
\* attempts >= 1.  The double quotient compares with 0.9 and 0.5 exactly as the
\* rational does for every attempts below 10^14.
accuracyAtLeast(ruleMastery, num, den) ==
    ruleMastery.correct * den >= num * ruleMastery.attempts

accuracyBelow(ruleMastery, num, den) ==
    ruleMastery.correct * den < num * ruleMastery.attempts

Min(a, b) == IF a <= b THEN a ELSE b

Max(a, b) == IF a >= b THEN a ELSE b

\* a variant that promotes only after more than five attempts
updateMasteryLevel_StrictFive(ruleMastery) ==
    IF accuracyAtLeast(ruleMastery, 9, 10) /\ ruleMastery.attempts > 5
    THEN [ruleMastery EXCEPT !.level = Min(4, @ + 1)]
    ELSE IF accuracyBelow(ruleMastery, 5, 10) /\ ruleMastery.attempts >= 3
         THEN [ruleMastery EXCEPT !.level = Max(1, @ - 1)]
         ELSE ruleMastery

\* a variant that promotes without waiting for five attempts
updateMasteryLevel_NoMinAttempts(ruleMastery) ==
    IF accuracyAtLeast(ruleMastery, 9, 10)
    THEN [ruleMastery EXCEPT !.level = Min(4, @ + 1)]
    ELSE IF accuracyBelow(ruleMastery, 5, 10) /\ ruleMastery.attempts >= 3
         THEN [ruleMastery EXCEPT !.level = Max(1, @ - 1)]
         ELSE ruleMastery

\* a variant that demotes as soon as accuracy falls below the promotion mark
updateMasteryLevel_DemoteBelowNine(ruleMastery) ==
    IF accuracyAtLeast(ruleMastery, 9, 10) /\ ruleMastery.attempts >= 5
    THEN [ruleMastery EXCEPT !.level = Min(4, @ + 1)]
    ELSE IF accuracyBelow(ruleMastery, 9, 10) /\ ruleMastery.attempts >= 3
         THEN [ruleMastery EXCEPT !.level = Max(1, @ - 1)]
         ELSE ruleMastery

\* a variant without the cap at level 4
updateMasteryLevel_NoCap(ruleMastery) ==
    IF accuracyAtLeast(ruleMastery, 9, 10) /\ ruleMastery.attempts >= 5
    THEN [ruleMastery EXCEPT !.level = @ + 1]
    ELSE IF accuracyBelow(ruleMastery, 5, 10) /\ ruleMastery.attempts >= 3
         THEN [ruleMastery EXCEPT !.level = Max(1, @ - 1)]
         ELSE ruleMastery

\* lines 109-115: the mastery level after the attempt was counted
updateMasteryLevel(ruleMastery) ==
    IF accuracyAtLeast(ruleMastery, 9, 10) /\ ruleMastery.attempts >= 5
    THEN [ruleMastery EXCEPT !.level = Min(4, @ + 1)]
    ELSE IF accuracyBelow(ruleMastery, 5, 10) /\ ruleMastery.attempts >= 3
         THEN [ruleMastery EXCEPT !.level = Max(1, @ - 1)]
         ELSE ruleMastery

\* a variant that credits the points of every answer
updateOverallStats_AlwaysCredit(progress, correct, points) ==
    [progress EXCEPT
        !.totalQuizzes = @ + 1,
        !.totalCorrect = IF correct THEN @ + 1 ELSE @,
        !.experience = @ + points]

\* a variant that counts a quiz only when the answer is correct
updateOverallStats_SkipWrong(progress, correct, points) ==
    [progress EXCEPT
        !.totalQuizzes = IF correct THEN @ + 1 ELSE @,
        !.totalCorrect = IF correct THEN @ + 1 ELSE @,
        !.experience = IF correct THEN @ + points ELSE @]

\* lines 117-122: the account totals
updateOverallStats(progress, correct, points) ==
    [progress EXCEPT
        !.totalQuizzes = @ + 1,
        !.totalCorrect = IF correct THEN @ + 1 ELSE @,
        !.experience = IF correct THEN @ + points ELSE @]

\* lines 124-141: the streak and lastPracticeDate
updateStreak(progress, t) ==
    [progress EXCEPT
        !.streak = IF lastDate(progress) = today(t) THEN @
                   ELSE IF lastDate(progress) = yesterday(t) THEN @ + 1
                   ELSE IF lastDate(progress) # Null THEN 1
                   ELSE 1,
        !.lastPracticeDate = toISOString(t)]

\* a variant that keeps levelling up while the experience covers the next level
RECURSIVE checkLevelUp_Loop(_)
checkLevelUp_Loop(progress) ==
    IF progress.experience >= getExperienceForLevel(progress.level + 1)
    THEN checkLevelUp_Loop([progress EXCEPT !.level = @ + 1])
    ELSE progress

\* lines 143-149: the account level
checkLevelUp(progress) ==
    IF progress.experience >= getExperienceForLevel(progress.level + 1)
    THEN [progress EXCEPT !.level = @ + 1]
    ELSE progress

\* lines 88-151: the record recordAttempt saves
recordAttemptData(progress, ruleId, correct, points, t) ==
    LET ruleMastery == updateMasteryLevel(
                           countAttempt(ruleRecord(progress, ruleId), correct, points, t))
        withRule == [progress EXCEPT
                        !.rulesMastery =
                            [r \in DOMAIN @ \cup {ruleId} |->
                                IF r = ruleId THEN ruleMastery ELSE @[r]],
                        !.rulesMasteryKeys =
                            IF ruleId \in DOMAIN progress.rulesMastery
                            THEN @ ELSE Append(@, ruleId)]
    IN  checkLevelUp(updateStreak(updateOverallStats(withRule, correct, points), t))

\* a variant that reports the account level read at the start of the call
recordAttemptResult_LevelRead(progress, saved, correct, points) ==
    [levelUp |-> saved.experience >= getExperienceForLevel(progress.level + 1),
     newLevel |-> progress.level,
     pointsEarned |-> IF correct THEN points ELSE 0,
     streak |-> saved.streak]

\* lines 153-158: the value recordAttempt returns; nextLevelXP was computed
\* from the account level before the level-up check
recordAttemptResult(progress, saved, correct, points) ==
    [levelUp |-> saved.experience >= getExperienceForLevel(progress.level + 1),
     newLevel |-> saved.level,
     pointsEarned |-> IF correct THEN points ELSE 0,
     streak |-> saved.streak]

---------------------------------------------------------------------------
(* Getters *)

\* getRuleMastery(ruleId): ruleMastery.level || 1, and 1 for a rule without record
getRuleMastery(ruleId) ==
    IF ruleId \notin DOMAIN getProgressData.rulesMastery
    THEN 1
    ELSE LET level == getProgressData.rulesMastery[ruleId].level
         IN  IF level = 0 THEN 1 ELSE level

\* Math.round(accuracy * 100); the double product rounds as the rational does
\* for every attempts below 40
accuracyPercent(ruleMastery) ==
    (200 * ruleMastery.correct + ruleMastery.attempts) \div (2 * ruleMastery.attempts)

\* the status branch of getRulePerformance, lines 244-252
performanceStatus(ruleMastery) ==
    IF accuracyAtLeast(ruleMastery, 9, 10) /\ ruleMastery.attempts >= 5
    THEN "mastered"
    ELSE IF accuracyAtLeast(ruleMastery, 7, 10)
    THEN "progressing"
    ELSE IF accuracyBelow(ruleMastery, 1, 2)
    THEN "struggling"
    ELSE "learning"

getRulePerformance(ruleId) ==
    LET present == ruleId \in DOMAIN getProgressData.rulesMastery
        ruleMastery == getProgressData.rulesMastery[ruleId]
    IN  IF ~present \/ ruleMastery.attempts = 0
        THEN [attempts |-> 0, correct |-> 0, accuracy |-> 0, level |-> 1,
              lastPracticed |-> Null, totalPoints |-> 0, status |-> "new"]
        ELSE [attempts |-> ruleMastery.attempts,
              correct |-> ruleMastery.correct,
              accuracy |-> accuracyPercent(ruleMastery),
              level |-> ruleMastery.level,
              lastPracticed |-> ruleMastery.lastPracticed,
              totalPoints |-> ruleMastery.totalPoints,
              status |-> performanceStatus(ruleMastery)]

\* getMasteredRules(): the rules with accuracy >= 0.85 over at least five
\* attempts, in the order of Object.entries; the double quotient compares
\* with 0.85 as the rational does
getMasteredRules ==
    LET rulesMastery == getProgressData.rulesMastery
        mastered(ruleId) ==
            LET data == rulesMastery[ruleId]
            IN  /\ IF data.attempts > 0 THEN accuracyAtLeast(data, 85, 100) ELSE FALSE
                /\ data.attempts >= 5
    IN  SelectSeq(getProgressData.rulesMasteryKeys, mastered)

---------------------------------------------------------------------------
(* Double arithmetic.  accA, accB and their difference are IEEE-754 doubles; *)
(* a value in [0, 2) is held as its binary expansion b[1] . b[2] b[3] ...    *)
(* (b[1] the units bit), exact to FracBits fractional bits, which is enough  *)
(* for the 53 significant bits of every quotient of attempts below 2^10.     *)

FracBits == 63

SignificantBits == 53

\* 2^n modulo a
RECURSIVE PowerOfTwoMod(_, _)
PowerOfTwoMod(n, a) ==
    IF n = 0 THEN 1 % a
    ELSE LET h == PowerOfTwoMod(n \div 2, a)
         IN  (h * h * (IF n % 2 = 1 THEN 2 ELSE 1)) % a

\* what is left of r / a after n fractional bits, for 0 <= r < a
RemainderAfter(r, a, n) == (r * PowerOfTwoMod(n, a)) % a

\* a binary expansion given bit by bit, as a sequence
Expansion(bit) == SubSeq(bit, 1, FracBits + 1)

\* the binary expansion of correct / attempts, cut after FracBits fractional bits
QuotientBits(correct, attempts) ==
    Expansion([i \in 1..(FracBits + 1) |->
        IF i = 1 THEN correct \div attempts
        ELSE (2 * RemainderAfter(correct % attempts, attempts, i - 2)) \div attempts])

\* position of the leading 1 bit, 0 for the value zero
Leading(bits) ==
    IF \A i \in 1..Len(bits) : bits[i] = 0 THEN 0
    ELSE CHOOSE i \in 1..Len(bits) :
            bits[i] = 1 /\ \A j \in 1..(i - 1) : bits[j] = 0

\* bits plus one unit in position pos
AddUnit(bits, pos) ==
    LET j == CHOOSE k \in 1..pos :
                 bits[k] = 0 /\ \A m \in (k + 1)..pos : bits[m] = 1
    IN  Expansion([i \in 1..Len(bits) |->
            IF i < j THEN bits[i] ELSE IF i = j THEN 1 ELSE 0])

\* round to nearest, ties to even, at 53 significant bits; inexact says that
\* the exact value has further 1 bits beyond the expansion
RoundToDouble(bits, inexact) ==
    LET lead == Leading(bits)
        last == lead + SignificantBits - 1
    IN  IF lead = 0 \/ last >= Len(bits) THEN bits
        ELSE LET rest == inexact \/ \E i \in (last + 2)..Len(bits) : bits[i] = 1
                 up == bits[last + 1] = 1 /\ (rest \/ bits[last] = 1)
                 kept == Expansion([i \in 1..Len(bits) |->
                                       IF i <= last THEN bits[i] ELSE 0])
             IN  IF up THEN AddUnit(kept, last) ELSE kept

\* the first position from i on where x and y differ, 0 if there is none
FirstDifference(x, y, i) ==
    IF \A k \in i..Len(x) : x[k] = y[k] THEN 0
    ELSE CHOOSE k \in i..Len(x) :
            x[k] # y[k] /\ \A m \in i..(k - 1) : x[m] = y[m]

\* x < y
DoubleLess(x, y) ==
    LET k == FirstDifference(x, y, 1) IN k # 0 /\ x[k] < y[k]

\* the exact difference x - y for x >= y: bit i borrows when the bits below
\* it make a smaller number in x than in y
Subtract(x, y) ==
    Expansion([i \in 1..Len(x) |->
        LET k == FirstDifference(x, y, i + 1)
            borrow == IF k # 0 /\ x[k] < y[k] THEN 1 ELSE 0
        IN  (x[i] - y[i] - borrow) % 2])

\* correct / attempts as the double the division yields (correct <= attempts)
DoubleQuotient(correct, attempts) ==
    RoundToDouble(QuotientBits(correct, attempts),
                  RemainderAfter(correct % attempts, attempts, FracBits) # 0)

\* Math.abs(x - y)
AbsDifference(x, y) ==
    RoundToDouble(IF DoubleLess(x, y) THEN Subtract(y, x) ELSE Subtract(x, y), FALSE)

\* the literal 0.1
Tenth == DoubleQuotient(1, 10)

---------------------------------------------------------------------------
(* getWeakRules *)

\* the filter of getWeakRules: accuracy < 0.7 && attempts >= 2
isWeak(data) ==
    /\ IF data.attempts > 0 THEN accuracyBelow(data, 7, 10) ELSE TRUE
    /\ data.attempts >= 2

Sign(n) == IF n < 0 THEN -1 ELSE IF n > 0 THEN 1 ELSE 0

\* the comparator handed to sort, lines 194-201, by its sign
compareWeak(a, b) ==
    LET accA == DoubleQuotient(a.correct, a.attempts)
        accB == DoubleQuotient(b.correct, b.attempts)
    IN  IF DoubleLess(Tenth, AbsDifference(accA, accB))
        THEN (IF DoubleLess(accA, accB) THEN -1 ELSE 1)
        ELSE Sign(b.attempts - a.attempts)

\* the signs the comparator returns on the pairs of items, computed once
comparisons(items) ==
    LET n == Len(items)
    IN  SubSeq([i \in 1..n |->
                   SubSeq([j \in 1..n |-> compareWeak(items[i], items[j])], 1, n)],
               1, n)

\* ECMAScript: the comparator is a consistent comparison function for the
\* values of items (symmetric, and transitive in <, = and >)
ConsistentComparator(c) ==
    LET I == 1..Len(c)
    IN  /\ \A i, j \in I : c[i][j] = -c[j][i]
        /\ \A i, j, k \in I :
              /\ (c[i][j] = 0 /\ c[j][k] = 0) => c[i][k] = 0
              /\ (c[i][j] < 0 /\ c[j][k] < 0) => c[i][k] < 0

\* Array.prototype.sort on items: the orders (as index permutations) it can
\* leave.  With a consistent comparator the sort is stable and the order is
\* determined; otherwise the order is implementation-defined.
sortOrders(items) ==
    LET n == Len(items)
        c == comparisons(items)
    IN  IF ConsistentComparator(c)
        THEN {p \in Permutations(1..n) :
                 \A i, j \in 1..n : i < j =>
                     \/ c[p[i]][p[j]] < 0
                     \/ c[p[i]][p[j]] = 0 /\ p[i] < p[j]}
        ELSE Permutations(1..n)

\* .slice(0, limit)
slice(seq, limit) == SubSeq(seq, 1, Min(limit, Len(seq)))

\* the arrays getWeakRules(limit) can return
getWeakRules(limit) ==
    LET rulesMastery == getProgressData.rulesMastery
        weakRules == SelectSeq(getProgressData.rulesMasteryKeys,
                               LAMBDA ruleId : isWeak(rulesMastery[ruleId]))
        items == [i \in 1..Len(weakRules) |-> rulesMastery[weakRules[i]]]
    IN  {slice([i \in 1..Len(weakRules) |-> weakRules[p[i]]], limit) :
            p \in sortOrders(items)}

---------------------------------------------------------------------------
(* Texts.  A JavaScript string is the sequence of its characters (UTF-16   *)
(* code units; every character used here is one unit).                     *)

\* \w of a regular expression without the u flag: ASCII letters, digits, _
WordChars ==
    {"a", "b", "c", "d", "e", "f", "g", "h", "i", "j", "k", "l", "m", "n", "o",
     "p", "q", "r", "s", "t", "u", "v", "w", "x", "y", "z",
     "A", "B", "C", "D", "E", "F", "G", "H", "I", "J", "K", "L", "M", "N", "O",
     "P", "Q", "R", "S", "T", "U", "V", "W", "X", "Y", "Z",
     "0", "1", "2", "3", "4", "5", "6", "7", "8", "9", "_"}

\* \s
SpaceChars == {" ", "\t", "\n"}

\* String.prototype.toLowerCase
toLowerCase(s) ==
    LET UpperCase ==
            <<"A", "B", "C", "D", "E", "F", "G", "H", "I", "J", "K", "L", "M",
              "N", "O", "P", "Q", "R", "S", "T", "U", "V", "W", "X", "Y", "Z",
              "À", "É", "Ê">>
        LowerCase ==
            <<"a", "b", "c", "d", "e", "f", "g", "h", "i", "j", "k", "l", "m",
              "n", "o", "p", "q", "r", "s", "t", "u", "v", "w", "x", "y", "z",
              "à", "é", "ê">>
    IN  SubSeq([i \in 1..Len(s) |->
                   IF \E k \in 1..Len(UpperCase) : UpperCase[k] = s[i]
                   THEN LowerCase[CHOOSE k \in 1..Len(UpperCase) : UpperCase[k] = s[i]]
                   ELSE s[i]], 1, Len(s))

\* String.prototype.trim
trim(s) ==
    LET inked == {i \in 1..Len(s) : s[i] \notin SpaceChars}
    IN  IF inked = {} THEN <<>>
        ELSE SubSeq(s, CHOOSE i \in inked : \A j \in inked : i <= j,
                       CHOOSE i \in inked : \A j \in inked : i >= j)

\* the characters of s from position i on are those of part
matchAt(s, i, part) ==
    /\ i >= 1
    /\ i + Len(part) - 1 <= Len(s)
    /\ \A k \in 1..Len(part) : s[i + k - 1] = part[k]

\* String.prototype.includes
includes(s, part) == \E i \in 1..(Len(s) + 1) : matchAt(s, i, part)

\* \b just before position i (i = Len(s) + 1: at the end)
wordBoundary(s, i) ==
    LET before == i - 1 >= 1 /\ i - 1 <= Len(s) /\ s[i - 1] \in WordChars
        after == i >= 1 /\ i <= Len(s) /\ s[i] \in WordChars
    IN  before # after

\* /\bword\b/.test(s)
testWord(s, word) ==
    \E i \in 1..Len(s) :
        /\ matchAt(s, i, word)
        /\ wordBoundary(s, i)
        /\ wordBoundary(s, i + Len(word))

\* /first\s+second\b/.test(s)
testPair(s, first, second) ==
    \E i \in 1..Len(s) : \E j \in (i + Len(first) + 1)..Len(s) :
        /\ matchAt(s, i, first)
        /\ \A k \in (i + Len(first))..(j - 1) : s[k] \in SpaceChars
        /\ matchAt(s, j, second)
        /\ wordBoundary(s, j + Len(second))

\* s.split(/\s+/): the pieces of s between its runs of white space
splitSpaces(s) ==
    LET n == Len(s)
        starts == {i \in 1..n : s[i] \notin SpaceChars
                                 /\ (i = 1 \/ s[i - 1] \in SpaceChars)}
        endOf(i) == CHOOSE j \in i..n :
                        /\ \A k \in i..j : s[k] \notin SpaceChars
                        /\ (j = n \/ s[j + 1] \in SpaceChars)
        start(k) == CHOOSE i \in starts : Cardinality({j \in starts : j <= i}) = k
        words == [k \in 1..Cardinality(starts) |-> SubSeq(s, start(k), endOf(start(k)))]
        leading == IF n = 0 \/ s[1] \in SpaceChars THEN << <<>> >> ELSE <<>>
        trailing == IF n > 0 /\ s[n] \in SpaceChars THEN << <<>> >> ELSE <<>>
    IN  IF n = 0 THEN << <<>> >>
        ELSE leading \o SubSeq(words, 1, Cardinality(starts)) \o trailing

---------------------------------------------------------------------------
(* The grammar catalog (data/frenchGrammarRules.js): of each entry the     *)
(* fields the classifier and the quiz generator read.  Texts they cut,     *)
(* search or compare are sequences of characters, the others are opaque    *)
(* strings.                                                                *)

frenchGrammarRules ==
    LET \* frenchGrammarRules['contraction-au']
        rule_contraction_au ==
            [id |-> "contraction-au",
             category |->
                 <<"c", "o", "n", "t", "r", "a", "c", "t", "i", "o", "n", "s">>,
             rule |->
                 <<"à", " ", "+", " ", "l", "e", " ", "=", " ", "a", "u", " ", "(",
                   "m", "a", "n", "d", "a", "t", "o", "r", "y", " ", "c", "o", "n",
                   "t", "r", "a", "c", "t", "i", "o", "n", ")">>,
             explanation |->
                 "When the preposition \"à\" is followed by the masculine definite article \"le\", they must contract to form \"au\". This is mandatory in French.",
             examples |->
                <<[correct |->
                      <<"J", "e", " ", "v", "a", "i", "s", " ", "a", "u", " ", "p",
                        "a", "r", "c">>,
                   incorrect |->
                      <<"J", "e", " ", "v", "a", "i", "s", " ", "à", " ", "l", "e",
                        " ", "p", "a", "r", "c">>,
                   translation |-> "I go to the park"],
                  [correct |->
                      <<"I", "l", " ", "e", "s", "t", " ", "a", "u", " ", "c", "i",
                        "n", "é", "m", "a">>,
                   incorrect |->
                      <<"I", "l", " ", "e", "s", "t", " ", "à", " ", "l", "e", " ",
                        "c", "i", "n", "é", "m", "a">>,
                   translation |-> "He is at the cinema"],
                  [correct |-> <<"a", "u", " ", "m", "a", "r", "c", "h", "é">>,
                   incorrect |->
                      <<"à", " ", "l", "e", " ", "m", "a", "r", "c", "h", "é">>,
                   translation |-> "to the market"]>>,
             practice |->
                <<[prompt |->
                      <<"T", "r", "a", "n", "s", "f", "o", "r", "m", ":", " ", "à",
                        " ", "l", "e", " ", "r", "e", "s", "t", "a", "u", "r", "a",
                        "n", "t", " ", "→", " ", "_", "_", "_", "_", "_", "_", "_",
                        "_", "_", "_">>,
                   answer |->
                      <<"a", "u", " ", "r", "e", "s", "t", "a", "u", "r", "a", "n",
                        "t">>],
                  [prompt |->
                      <<"T", "r", "a", "n", "s", "f", "o", "r", "m", ":", " ", "à",
                        " ", "l", "e", " ", "b", "u", "r", "e", "a", "u", " ", "→",
                        " ", "_", "_", "_", "_", "_", "_", "_", "_", "_", "_">>,
                   answer |-> <<"a", "u", " ", "b", "u", "r", "e", "a", "u">>],
                  [prompt |->
                      <<"F", "i", "x", " ", "t", "h", "e", " ", "e", "r", "r", "o",
                        "r", ":", " ", "J", "e", " ", "v", "a", "i", "s", " ", "à",
                        " ", "l", "e", " ", "s", "t", "a", "d", "e">>,
                   answer |->
                      <<"J", "e", " ", "v", "a", "i", "s", " ", "a", "u", " ", "s",
                        "t", "a", "d", "e">>]>>,
             relatedRules |-> <<"contraction-du", "prepositions-place">>]

        \* frenchGrammarRules['contraction-du']
        rule_contraction_du ==
            [id |-> "contraction-du",
             category |->
                 <<"c", "o", "n", "t", "r", "a", "c", "t", "i", "o", "n", "s">>,
             rule |->
                 <<"d", "e", " ", "+", " ", "l", "e", " ", "=", " ", "d", "u", " ",
                   "(", "m", "a", "n", "d", "a", "t", "o", "r", "y", " ", "c", "o",
                   "n", "t", "r", "a", "c", "t", "i", "o", "n", ")">>,
             explanation |->
                 "When the preposition \"de\" is followed by the masculine definite article \"le\", they must contract to form \"du\".",
             examples |->
                <<[correct |->
                      <<"J", "e", " ", "v", "i", "e", "n", "s", " ", "d", "u", " ",
                        "p", "a", "r", "c">>,
                   incorrect |->
                      <<"J", "e", " ", "v", "i", "e", "n", "s", " ", "d", "e", " ",
                        "l", "e", " ", "p", "a", "r", "c">>,
                   translation |-> "I come from the park"],
                  [correct |->
                      <<"L", "e", " ", "c", "h", "a", "t", " ", "d", "u", " ", "v",
                        "o", "i", "s", "i", "n">>,
                   incorrect |->
                      <<"L", "e", " ", "c", "h", "a", "t", " ", "d", "e", " ", "l",
                        "e", " ", "v", "o", "i", "s", "i", "n">>,
                   translation |-> "The neighbor's cat"],
                  [correct |-> <<"d", "u", " ", "m", "a", "g", "a", "s", "i", "n">>,
                   incorrect |->
                      <<"d", "e", " ", "l", "e", " ", "m", "a", "g", "a", "s", "i",
                        "n">>,
                   translation |-> "from the store"]>>,
             practice |->
                <<[prompt |->
                      <<"T", "r", "a", "n", "s", "f", "o", "r", "m", ":", " ", "d",
                        "e", " ", "l", "e", " ", "m", "u", "s", "é", "e", " ", "→",
                        " ", "_", "_", "_", "_", "_", "_", "_", "_", "_", "_">>,
                   answer |-> <<"d", "u", " ", "m", "u", "s", "é", "e">>],
                  [prompt |->
                      <<"F", "i", "x", ":", " ", "L", "e", " ", "l", "i", "v", "r",
                        "e", " ", "d", "e", " ", "l", "e", " ", "p", "r", "o", "f",
                        "e", "s", "s", "e", "u", "r">>,
                   answer |->
                      <<"L", "e", " ", "l", "i", "v", "r", "e", " ", "d", "u", " ",
                        "p", "r", "o", "f", "e", "s", "s", "e", "u", "r">>]>>,
             relatedRules |-> <<"contraction-au", "partitive-article">>]

        \* frenchGrammarRules['contraction-aux']
        rule_contraction_aux ==
            [id |-> "contraction-aux",
             category |->
                 <<"c", "o", "n", "t", "r", "a", "c", "t", "i", "o", "n", "s">>,
             rule |->
                 <<"à", " ", "+", " ", "l", "e", "s", " ", "=", " ", "a", "u", "x",
                   " ", "(", "m", "a", "n", "d", "a", "t", "o", "r", "y", " ", "c",
                   "o", "n", "t", "r", "a", "c", "t", "i", "o", "n", ")">>,
             explanation |->
                 "When \"à\" precedes the plural article \"les\", they contract to \"aux\".",
             examples |->
                <<[correct |->
                      <<"J", "e", " ", "p", "a", "r", "l", "e", " ", "a", "u", "x",
                        " ", "e", "n", "f", "a", "n", "t", "s">>,
                   incorrect |->
                      <<"J", "e", " ", "p", "a", "r", "l", "e", " ", "à", " ", "l",
                        "e", "s", " ", "e", "n", "f", "a", "n", "t", "s">>,
                   translation |-> "I speak to the children"],
                  [correct |->
                      <<"a", "u", "x", " ", "É", "t", "a", "t", "s", "-", "U", "n",
                        "i", "s">>,
                   incorrect |->
                      <<"à", " ", "l", "e", "s", " ", "É", "t", "a", "t", "s", "-",
                        "U", "n", "i", "s">>,
                   translation |-> "to the United States"]>>,
             practice |->
                <<[prompt |->
                      <<"T", "r", "a", "n", "s", "f", "o", "r", "m", ":", " ", "à",
                        " ", "l", "e", "s", " ", "é", "t", "u", "d", "i", "a", "n",
                        "t", "s", " ", "→", " ", "_", "_", "_", "_", "_", "_", "_",
                        "_", "_", "_">>,
                   answer |->
                      <<"a", "u", "x", " ", "é", "t", "u", "d", "i", "a", "n", "t",
                        "s">>]>>,
             relatedRules |-> <<"contraction-au", "plural-articles">>]

        \* frenchGrammarRules['gender-article-masculine']
        rule_gender_article_masculine ==
            [id |-> "gender-article-masculine",
             category |->
                 <<"g", "e", "n", "d", "e", "r", "-", "a", "g", "r", "e", "e", "m",
                   "e", "n", "t">>,
             rule |->
                 <<"M", "a", "s", "c", "u", "l", "i", "n", "e", " ", "n", "o", "u",
                   "n", "s", " ", "u", "s", "e", " ", "\"", "l", "e", "\"", " ", "(",
                   "o", "r", " ", "\"", "u", "n", "\"", " ", "f", "o", "r", " ", "i",
                   "n", "d", "e", "f", "i", "n", "i", "t", "e", ")">>,
             explanation |->
                 "French nouns have grammatical gender. Masculine nouns require masculine articles.",
             examples |->
                <<[correct |-> <<"l", "e", " ", "c", "h", "a", "t">>,
                   translation |-> "the cat",
                   note |-> "masculine noun"],
                  [correct |-> <<"l", "e", " ", "l", "i", "v", "r", "e">>,
                   translation |-> "the book"],
                  [correct |-> <<"u", "n", " ", "g", "a", "r", "ç", "o", "n">>,
                   translation |-> "a boy"]>>,
             practice |->
                <<[prompt |->
                      <<"I", "s", " ", "\"", "t", "a", "b", "l", "e", "\"", " ", "m",
                        "a", "s", "c", "u", "l", "i", "n", "e", " ", "o", "r", " ",
                        "f", "e", "m", "i", "n", "i", "n", "e", "?">>,
                   answer |->
                      <<"f", "e", "m", "i", "n", "i", "n", "e", " ", "(", "l", "a",
                        " ", "t", "a", "b", "l", "e", ")">>,
                   hint |-> "ends in -e"],
                  [prompt |->
                      <<"C", "h", "o", "o", "s", "e", " ", "t", "h", "e", " ", "c",
                        "o", "r", "r", "e", "c", "t", " ", "a", "r", "t", "i", "c",
                        "l", "e", ":", " ", "_", "_", "_", " ", "c", "h", "â", "t",
                        "e", "a", "u">>,
                   answer |-> <<"l", "e">>,
                   hint |-> "ends in -eau"]>>,
             relatedRules |-> <<"gender-article-feminine", "adjective-agreement">>]

        \* frenchGrammarRules['gender-article-feminine']
        rule_gender_article_feminine ==
            [id |-> "gender-article-feminine",
             category |->
                 <<"g", "e", "n", "d", "e", "r", "-", "a", "g", "r", "e", "e", "m",
                   "e", "n", "t">>,
             rule |->
                 <<"F", "e", "m", "i", "n", "i", "n", "e", " ", "n", "o", "u", "n",
                   "s", " ", "u", "s", "e", " ", "\"", "l", "a", "\"", " ", "(", "o",
                   "r", " ", "\"", "u", "n", "e", "\"", " ", "f", "o", "r", " ", "i",
                   "n", "d", "e", "f", "i", "n", "i", "t", "e", ")">>,
             explanation |-> "Feminine nouns require feminine articles in French.",
             examples |->
                <<[correct |-> <<"l", "a", " ", "m", "a", "i", "s", "o", "n">>,
                   translation |-> "the house"],
                  [correct |-> <<"l", "a", " ", "t", "a", "b", "l", "e">>,
                   translation |-> "the table"],
                  [correct |-> <<"u", "n", "e", " ", "f", "i", "l", "l", "e">>,
                   translation |-> "a girl"]>>,
             relatedRules |-> <<"gender-article-masculine", "adjective-agreement">>]

        \* frenchGrammarRules['passe-compose-etre']
        rule_passe_compose_etre ==
            [id |-> "passe-compose-etre",
             category |->
                 <<"v", "e", "r", "b", "-", "c", "o", "n", "j", "u", "g", "a", "t",
                   "i", "o", "n">>,
             rule |->
                 <<"P", "a", "s", "s", "é", " ", "c", "o", "m", "p", "o", "s", "é",
                   " ", "w", "i", "t", "h", " ", "ê", "t", "r", "e", ":", " ", "p",
                   "a", "s", "t", " ", "p", "a", "r", "t", "i", "c", "i", "p", "l",
                   "e", " ", "a", "g", "r", "e", "e", "s", " ", "w", "i", "t", "h",
                   " ", "s", "u", "b", "j", "e", "c", "t">>,
             explanation |->
                 "Verbs using être as auxiliary (DR & MRS VANDERTRAMP) require past participle agreement with the subject in gender and number.",
             examples |->
                <<[correct |->
                      <<"E", "l", "l", "e", " ", "e", "s", "t", " ", "a", "l", "l",
                        "é", "e">>,
                   incorrect |->
                      <<"E", "l", "l", "e", " ", "e", "s", "t", " ", "a", "l", "l",
                        "é">>,
                   translation |-> "She went",
                   note |-> "feminine subject"],
                  [correct |->
                      <<"I", "l", "s", " ", "s", "o", "n", "t", " ", "a", "r", "r",
                        "i", "v", "é", "s">>,
                   incorrect |->
                      <<"I", "l", "s", " ", "s", "o", "n", "t", " ", "a", "r", "r",
                        "i", "v", "é">>,
                   translation |-> "They arrived",
                   note |-> "plural"],
                  [correct |->
                      <<"J", "e", " ", "s", "u", "i", "s", " ", "v", "e", "n", "u",
                        "(", "e", ")">>,
                   translation |-> "I came",
                   note |-> "gender depends on speaker"]>>,
             practice |->
                <<[prompt |->
                      <<"C", "o", "n", "j", "u", "g", "a", "t", "e", ":", " ", "E",
                        "l", "l", "e", " ", "(", "a", "l", "l", "e", "r", ")", " ",
                        "a", "u", " ", "c", "i", "n", "é", "m", "a", " ", "→", " ",
                        "_", "_", "_", "_", "_", "_", "_", "_", "_", "_">>,
                   answer |->
                      <<"E", "l", "l", "e", " ", "e", "s", "t", " ", "a", "l", "l",
                        "é", "e", " ", "a", "u", " ", "c", "i", "n", "é", "m", "a">>],
                  [prompt |->
                      <<"F", "i", "x", ":", " ", "N", "o", "u", "s", " ", "s", "o",
                        "m", "m", "e", "s", " ", "a", "r", "r", "i", "v", "é", " ",
                        "h", "i", "e", "r">>,
                   answer |->
                      <<"N", "o", "u", "s", " ", "s", "o", "m", "m", "e", "s", " ",
                        "a", "r", "r", "i", "v", "é", "s", " ", "h", "i", "e", "r">>]>>,
             relatedRules |-> <<"passe-compose-avoir", "adjective-agreement">>]

        \* frenchGrammarRules['passe-compose-avoir']
        rule_passe_compose_avoir ==
            [id |-> "passe-compose-avoir",
             category |->
                 <<"v", "e", "r", "b", "-", "c", "o", "n", "j", "u", "g", "a", "t",
                   "i", "o", "n">>,
             rule |->
                 <<"P", "a", "s", "s", "é", " ", "c", "o", "m", "p", "o", "s", "é",
                   " ", "w", "i", "t", "h", " ", "a", "v", "o", "i", "r", ":", " ",
                   "n", "o", " ", "a", "g", "r", "e", "e", "m", "e", "n", "t", " ",
                   "(", "e", "x", "c", "e", "p", "t", " ", "w", "i", "t", "h", " ",
                   "p", "r", "e", "c", "e", "d", "i", "n", "g", " ", "d", "i", "r",
                   "e", "c", "t", " ", "o", "b", "j", "e", "c", "t", ")">>,
             explanation |->
                 "Most verbs use avoir as auxiliary in passé composé. The past participle does not agree with the subject.",
             examples |->
                <<[correct |-> <<"I", "l", " ", "a", " ", "m", "a", "n", "g", "é">>,
                   translation |-> "He ate"],
                  [correct |->
                      <<"E", "l", "l", "e", " ", "a", " ", "m", "a", "n", "g", "é">>,
                   translation |-> "She ate",
                   note |-> "same form for masculine/feminine"],
                  [correct |->
                      <<"I", "l", "s", " ", "o", "n", "t", " ", "p", "a", "r", "l",
                        "é">>,
                   translation |-> "They spoke"]>>,
             relatedRules |-> <<"passe-compose-etre", "direct-object-pronouns">>]

        \* frenchGrammarRules['present-tense-regular-er']
        rule_present_tense_regular_er ==
            [id |-> "present-tense-regular-er",
             category |->
                 <<"v", "e", "r", "b", "-", "c", "o", "n", "j", "u", "g", "a", "t",
                   "i", "o", "n">>,
             rule |->
                 <<"R", "e", "g", "u", "l", "a", "r", " ", "-", "e", "r", " ", "v",
                   "e", "r", "b", "s", ":", " ", "e", "n", "d", "i", "n", "g", "s",
                   " ", "a", "r", "e", " ", "-", "e", ",", " ", "-", "e", "s", ",",
                   " ", "-", "e", ",", " ", "-", "o", "n", "s", ",", " ", "-", "e",
                   "z", ",", " ", "-", "e", "n", "t">>,
             explanation |->
                 "Verbs ending in -er follow a regular pattern in present tense.",
             examples |->
                <<[verb |-> <<"p", "a", "r", "l", "e", "r">>],
                  [verb |-> <<"m", "a", "n", "g", "e", "r">>]>>,
             practice |->
                <<[prompt |->
                      <<"C", "o", "n", "j", "u", "g", "a", "t", "e", " ", "\"", "a",
                        "i", "m", "e", "r", "\"", " ", "w", "i", "t", "h", " ", "\"",
                        "j", "e", "\"">>,
                   answer |-> <<"j", "'", "a", "i", "m", "e">>],
                  [prompt |->
                      <<"C", "o", "n", "j", "u", "g", "a", "t", "e", " ", "\"", "p",
                        "a", "r", "l", "e", "r", "\"", " ", "w", "i", "t", "h", " ",
                        "\"", "n", "o", "u", "s", "\"">>,
                   answer |->
                      <<"n", "o", "u", "s", " ", "p", "a", "r", "l", "o", "n", "s">>]>>,
             relatedRules |-> <<"present-tense-ir", "present-tense-re">>]

        \* frenchGrammarRules['adjective-agreement']
        rule_adjective_agreement ==
            [id |-> "adjective-agreement",
             category |->
                 <<"a", "d", "j", "e", "c", "t", "i", "v", "e", "-", "a", "g", "r",
                   "e", "e", "m", "e", "n", "t">>,
             rule |->
                 <<"A", "d", "j", "e", "c", "t", "i", "v", "e", "s", " ", "a", "g",
                   "r", "e", "e", " ", "i", "n", " ", "g", "e", "n", "d", "e", "r",
                   " ", "a", "n", "d", " ", "n", "u", "m", "b", "e", "r", " ", "w",
                   "i", "t", "h", " ", "t", "h", "e", " ", "n", "o", "u", "n", " ",
                   "t", "h", "e", "y", " ", "m", "o", "d", "i", "f", "y">>,
             explanation |->
                 "French adjectives change form to match the gender (masculine/feminine) and number (singular/plural) of the noun.",
             examples |->
                <<[correct |->
                      <<"u", "n", "e", " ", "v", "o", "i", "t", "u", "r", "e", " ",
                        "b", "e", "l", "l", "e">>,
                   incorrect |->
                      <<"u", "n", "e", " ", "v", "o", "i", "t", "u", "r", "e", " ",
                        "b", "e", "a", "u">>,
                   translation |-> "a beautiful car",
                   note |-> "feminine"],
                  [correct |->
                      <<"d", "e", "s", " ", "c", "h", "a", "t", "s", " ", "g", "r",
                        "a", "n", "d", "s">>,
                   incorrect |->
                      <<"d", "e", "s", " ", "c", "h", "a", "t", "s", " ", "g", "r",
                        "a", "n", "d">>,
                   translation |-> "big cats",
                   note |-> "plural"],
                  [correct |->
                      <<"u", "n", " ", "h", "o", "m", "m", "e", " ", "i", "n", "t",
                        "e", "l", "l", "i", "g", "e", "n", "t">>,
                   translation |-> "an intelligent man"],
                  [correct |->
                      <<"u", "n", "e", " ", "f", "e", "m", "m", "e", " ", "i", "n",
                        "t", "e", "l", "l", "i", "g", "e", "n", "t", "e">>,
                   translation |-> "an intelligent woman",
                   note |-> "add -e for feminine"]>>,
             practice |->
                <<[prompt |->
                      <<"A", "g", "r", "e", "e", ":", " ", "u", "n", "e", " ", "r",
                        "o", "b", "e", " ", "(", "b", "l", "a", "n", "c", ")", " ",
                        "→", " ", "_", "_", "_", "_", "_", "_", "_", "_", "_", "_">>,
                   answer |->
                      <<"u", "n", "e", " ", "r", "o", "b", "e", " ", "b", "l", "a",
                        "n", "c", "h", "e">>],
                  [prompt |->
                      <<"A", "g", "r", "e", "e", ":", " ", "d", "e", "s", " ", "m",
                        "a", "i", "s", "o", "n", "s", " ", "(", "g", "r", "a", "n",
                        "d", ")", " ", "→", " ", "_", "_", "_", "_", "_", "_", "_",
                        "_", "_", "_">>,
                   answer |->
                      <<"d", "e", "s", " ", "m", "a", "i", "s", "o", "n", "s", " ",
                        "g", "r", "a", "n", "d", "e", "s">>]>>,
             relatedRules |->
                 <<"gender-article-masculine", "gender-article-feminine",
                   "adjective-position">>]

        \* frenchGrammarRules['prepositions-place']
        rule_prepositions_place ==
            [id |-> "prepositions-place",
             category |->
                 <<"p", "r", "e", "p", "o", "s", "i", "t", "i", "o", "n", "s">>,
             rule |->
                 <<"U", "s", "i", "n", "g", " ", "c", "o", "r", "r", "e", "c", "t",
                   " ", "p", "r", "e", "p", "o", "s", "i", "t", "i", "o", "n", "s",
                   " ", "w", "i", "t", "h", " ", "p", "l", "a", "c", "e", "s", ":",
                   " ", "à", " ", "(", "t", "o", "/", "a", "t", ")", ",", " ", "d",
                   "e", " ", "(", "f", "r", "o", "m", ")", ",", " ", "e", "n", "/",
                   "a", "u", " ", "(", "i", "n", "/", "t", "o", " ", "c", "o", "u",
                   "n", "t", "r", "i", "e", "s", ")">>,
             explanation |->
                 "French uses different prepositions for locations depending on context.",
             examples |->
                <<[correct |->
                      <<"J", "e", " ", "v", "a", "i", "s", " ", "à", " ", "P", "a",
                        "r", "i", "s">>,
                   translation |-> "I go to Paris",
                   note |-> "cities use à"],
                  [correct |->
                      <<"J", "e", " ", "s", "u", "i", "s", " ", "e", "n", " ", "F",
                        "r", "a", "n", "c", "e">>,
                   translation |-> "I am in France",
                   note |-> "feminine countries use en"],
                  [correct |->
                      <<"J", "e", " ", "v", "a", "i", "s", " ", "a", "u", " ", "C",
                        "a", "n", "a", "d", "a">>,
                   translation |-> "I go to Canada",
                   note |-> "masculine countries use au"],
                  [correct |->
                      <<"J", "e", " ", "v", "i", "e", "n", "s", " ", "d", "e", " ",
                        "L", "o", "n", "d", "r", "e", "s">>,
                   translation |-> "I come from London"]>>,
             relatedRules |-> <<"contraction-au", "contraction-du">>]

        \* frenchGrammarRules['direct-object-pronouns']
        rule_direct_object_pronouns ==
            [id |-> "direct-object-pronouns",
             category |-> <<"p", "r", "o", "n", "o", "u", "n", "s">>,
             rule |->
                 <<"D", "i", "r", "e", "c", "t", " ", "o", "b", "j", "e", "c", "t",
                   " ", "p", "r", "o", "n", "o", "u", "n", "s", ":", " ", "l", "e",
                   ",", " ", "l", "a", ",", " ", "l", "e", "s", ",", " ", "m", "e",
                   ",", " ", "t", "e", ",", " ", "n", "o", "u", "s", ",", " ", "v",
                   "o", "u", "s">>,
             explanation |->
                 "Direct object pronouns replace direct object nouns and come before the verb.",
             examples |->
                <<[correct |-> <<"J", "e", " ", "l", "e", " ", "v", "o", "i", "s">>,
                   incorrect |->
                      <<"J", "e", " ", "v", "o", "i", "s", " ", "l", "e", " ", "c",
                        "h", "a", "t">>,
                   translation |-> "I see it (the cat)",
                   note |-> "masculine singular"],
                  [correct |->
                      <<"I", "l", " ", "l", "a", " ", "m", "a", "n", "g", "e">>,
                   incorrect |->
                      <<"I", "l", " ", "m", "a", "n", "g", "e", " ", "l", "a", " ",
                        "p", "o", "m", "m", "e">>,
                   translation |-> "He eats it (the apple)",
                   note |-> "feminine singular"],
                  [correct |->
                      <<"N", "o", "u", "s", " ", "l", "e", "s", " ", "a", "i", "m",
                        "o", "n", "s">>,
                   incorrect |->
                      <<"N", "o", "u", "s", " ", "a", "i", "m", "o", "n", "s", " ",
                        "l", "e", "s", " ", "f", "i", "l", "m", "s">>,
                   translation |-> "We love them (the films)",
                   note |-> "plural"]>>,
             relatedRules |-> <<"indirect-object-pronouns", "pronoun-order">>]

        \* frenchGrammarRules['negation-ne-pas']
        rule_negation_ne_pas ==
            [id |-> "negation-ne-pas",
             category |-> <<"n", "e", "g", "a", "t", "i", "o", "n">>,
             rule |->
                 <<"N", "e", "g", "a", "t", "i", "o", "n", ":", " ", "n", "e", " ",
                   ".", ".", ".", " ", "p", "a", "s", " ", "s", "u", "r", "r", "o",
                   "u", "n", "d", "s", " ", "t", "h", "e", " ", "v", "e", "r", "b">>,
             explanation |->
                 "To make a sentence negative, place \"ne\" before the verb and \"pas\" after it.",
             examples |->
                <<[correct |->
                      <<"J", "e", " ", "n", "e", " ", "p", "a", "r", "l", "e", " ",
                        "p", "a", "s", " ", "f", "r", "a", "n", "ç", "a", "i", "s">>,
                   incorrect |->
                      <<"J", "e", " ", "p", "a", "s", " ", "p", "a", "r", "l", "e",
                        " ", "f", "r", "a", "n", "ç", "a", "i", "s">>,
                   translation |-> "I don't speak French"],
                  [correct |->
                      <<"I", "l", " ", "n", "e", " ", "m", "a", "n", "g", "e", " ",
                        "p", "a", "s">>,
                   incorrect |->
                      <<"I", "l", " ", "n", "e", " ", "p", "a", "s", " ", "m", "a",
                        "n", "g", "e">>,
                   translation |-> "He doesn't eat"],
                  [correct |->
                      <<"J", "e", " ", "n", "'", "a", "i", "m", "e", " ", "p", "a",
                        "s">>,
                   translation |-> "I don't like",
                   note |-> "ne → n' before vowel"]>>,
             practice |->
                <<[prompt |->
                      <<"M", "a", "k", "e", " ", "n", "e", "g", "a", "t", "i", "v",
                        "e", ":", " ", "I", "l", " ", "p", "a", "r", "l", "e", " ",
                        "a", "n", "g", "l", "a", "i", "s">>,
                   answer |->
                      <<"I", "l", " ", "n", "e", " ", "p", "a", "r", "l", "e", " ",
                        "p", "a", "s", " ", "a", "n", "g", "l", "a", "i", "s">>],
                  [prompt |->
                      <<"M", "a", "k", "e", " ", "n", "e", "g", "a", "t", "i", "v",
                        "e", ":", " ", "J", "e", " ", "v", "a", "i", "s", " ", "a",
                        "u", " ", "c", "i", "n", "é", "m", "a">>,
                   answer |->
                      <<"J", "e", " ", "n", "e", " ", "v", "a", "i", "s", " ", "p",
                        "a", "s", " ", "a", "u", " ", "c", "i", "n", "é", "m", "a">>]>>,
             relatedRules |-> <<"negation-complex">>]

        \* frenchGrammarRules['partitive-article']
        rule_partitive_article ==
            [id |-> "partitive-article",
             category |-> <<"a", "r", "t", "i", "c", "l", "e", "s">>,
             rule |->
                 <<"P", "a", "r", "t", "i", "t", "i", "v", "e", " ", "a", "r", "t",
                   "i", "c", "l", "e", "s", ":", " ", "d", "u", " ", "(", "m", ")",
                   ",", " ", "d", "e", " ", "l", "a", " ", "(", "f", ")", ",", " ",
                   "d", "e", " ", "l", "'", " ", "(", "v", "o", "w", "e", "l", ")",
                   ",", " ", "d", "e", "s", " ", "(", "p", "l", "u", "r", "a", "l",
                   ")">>,
             explanation |->
                 "Partitive articles express \"some\" or an unspecified quantity.",
             examples |->
                <<[correct |->
                      <<"J", "e", " ", "m", "a", "n", "g", "e", " ", "d", "u", " ",
                        "p", "a", "i", "n">>,
                   translation |-> "I eat (some) bread",
                   note |-> "masculine"],
                  [correct |->
                      <<"E", "l", "l", "e", " ", "b", "o", "i", "t", " ", "d", "e",
                        " ", "l", "a", " ", "l", "i", "m", "o", "n", "a", "d", "e">>,
                   translation |-> "She drinks (some) lemonade",
                   note |-> "feminine"],
                  [correct |->
                      <<"I", "l", " ", "y", " ", "a", " ", "d", "e", " ", "l", "'",
                        "e", "a", "u">>,
                   translation |-> "There is (some) water",
                   note |-> "vowel"]>>,
             relatedRules |-> <<"contraction-du", "indefinite-articles">>]
    IN  [id \in
            {"contraction-au", "contraction-du", "contraction-aux",
             "gender-article-masculine", "gender-article-feminine", "passe-compose-etre",
             "passe-compose-avoir", "present-tense-regular-er", "adjective-agreement",
             "prepositions-place", "direct-object-pronouns", "negation-ne-pas",
             "partitive-article"} |->
            CASE id = "contraction-au" -> rule_contraction_au
              [] id = "contraction-du" -> rule_contraction_du
              [] id = "contraction-aux" -> rule_contraction_aux
              [] id = "gender-article-masculine" -> rule_gender_article_masculine
              [] id = "gender-article-feminine" -> rule_gender_article_feminine
              [] id = "passe-compose-etre" -> rule_passe_compose_etre
              [] id = "passe-compose-avoir" -> rule_passe_compose_avoir
              [] id = "present-tense-regular-er" -> rule_present_tense_regular_er
              [] id = "adjective-agreement" -> rule_adjective_agreement
              [] id = "prepositions-place" -> rule_prepositions_place
              [] id = "direct-object-pronouns" -> rule_direct_object_pronouns
              [] id = "negation-ne-pas" -> rule_negation_ne_pas
              [] id = "partitive-article" -> rule_partitive_article]

---------------------------------------------------------------------------
(* Error classifier (errorDetector).  Confidences are in hundredths.       *)

\* frenchGrammarRules[type]: the entry, or undefined for a key it lacks
Undefined == [undefined |-> TRUE]

ruleOf(type) ==
    IF type \in DOMAIN frenchGrammarRules THEN frenchGrammarRules[type] ELSE Undefined

\* { type: null, confidence: 0, rule: null }
NoDetection == [type |-> Null, confidence |-> 0, rule |-> Null]

\* a result whose evidence is a keyword of the description
FromDescription(type, confidence) ==
    [type |-> type, confidence |-> confidence, rule |-> ruleOf(type),
     details |-> [source |-> "description"]]

\* a result whose evidence is the pair of texts
FromStructure(type, confidence, details) ==
    [type |-> type, confidence |-> confidence, rule |-> ruleOf(type),
     details |-> details]

\* the first of the indices, 0 if there is none: where a loop that returns at
\* its first match stops
FirstIndex(indices) ==
    IF indices = {} THEN 0
    ELSE CHOOSE k \in indices : \A m \in indices : k <= m

\* a variant in which a matched pattern carries the confidence of an article
\* or adjective match
contractionFound_Weaker(type) ==
    FromStructure(type, 85, [detectedError |-> "contraction"])

\* the result returned for a matched pattern (confidence: 0.95 in each)
contractionFound(type) ==
    FromStructure(type, 95, [detectedError |-> "contraction"])

detectContractionErrors(original, corrected, desc) ==
    LET ContractionPatterns ==
            <<[first |-> <<"à">>, second |-> <<"l", "e">>, correction |-> <<"a", "u">>,
               type |-> "contraction-au"],
              [first |-> <<"d", "e">>, second |-> <<"l", "e">>, correction |-> <<"d", "u">>,
               type |-> "contraction-du"],
              [first |-> <<"à">>, second |-> <<"l", "e", "s">>, correction |-> <<"a", "u", "x">>,
               type |-> "contraction-aux"],
              [first |-> <<"d", "e">>, second |-> <<"l", "e", "s">>, correction |-> <<"d", "e", "s">>,
               type |-> "contraction-des"]>>
        hit(k) == /\ testPair(original, ContractionPatterns[k].first,
                              ContractionPatterns[k].second)
                  /\ testWord(corrected, ContractionPatterns[k].correction)
        k == FirstIndex({x \in 1..Len(ContractionPatterns) : hit(x)})
    IN  IF k # 0
        THEN contractionFound(ContractionPatterns[k].type)
        ELSE IF /\ \/ includes(desc, <<"c", "o", "n", "t", "r", "a", "c", "t">>)
                   \/ includes(desc, <<"a", "u">>)
                   \/ includes(desc, <<"d", "u">>)
                /\ includes(original, <<"à", " ", "l", "e">>)
        THEN FromDescription("contraction-au", 70)
        ELSE NoDetection

detectGenderArticleErrors(original, corrected, desc) ==
    LET masculineArticles == {<<"l", "e">>, <<"u", "n">>, <<"c", "e">>, <<"m", "o", "n">>, <<"t", "o", "n">>, <<"s", "o", "n">>}
        feminineArticles == {<<"l", "a">>, <<"u", "n", "e">>, <<"c", "e", "t", "t", "e">>, <<"m", "a">>, <<"t", "a">>, <<"s", "a">>}
        originalWords == splitSpaces(original)
        correctedWords == splitSpaces(corrected)
        toFeminine(i) == /\ originalWords[i] \in masculineArticles
                         /\ correctedWords[i] \in feminineArticles
        toMasculine(i) == /\ originalWords[i] \in feminineArticles
                          /\ correctedWords[i] \in masculineArticles
        changed(i) == toFeminine(i) \/ toMasculine(i)
        i == FirstIndex({x \in 1..Min(Len(originalWords), Len(correctedWords)) : changed(x)})
    IN  IF i # 0
        THEN FromStructure(IF toFeminine(i) THEN "gender-article-feminine"
                                            ELSE "gender-article-masculine",
                           85,
                           [wrongArticle |-> originalWords[i],
                            correctArticle |-> correctedWords[i],
                            noun |-> IF i + 1 <= Len(originalWords)
                                     THEN originalWords[i + 1] ELSE <<>>])
        ELSE IF \/ includes(desc, <<"g", "e", "n", "d", "e", "r">>)
                \/ includes(desc, <<"a", "r", "t", "i", "c", "l", "e">>)
                \/ includes(desc, <<"m", "a", "s", "c", "u", "l", "i", "n", "e">>)
                \/ includes(desc, <<"f", "e", "m", "i", "n", "i", "n", "e">>)
        THEN FromDescription("gender-article-masculine", 50)
        ELSE NoDetection

\* s.match(/\b(je suis|...|elles sont)\s+(\w+)/i) on lower-case s: the first
\* match [subject, participle], or Null
matchPcEtre(s) ==
    LET \* the alternatives of the first group of pcEtrePattern
        etreSubjects ==
            <<<<"j", "e", " ", "s", "u", "i", "s">>, <<"t", "u", " ", "e", "s">>, <<"i", "l", " ", "e", "s", "t">>, <<"e", "l", "l", "e", " ", "e", "s", "t">>, <<"o", "n", " ", "e", "s", "t">>,
              <<"n", "o", "u", "s", " ", "s", "o", "m", "m", "e", "s">>, <<"v", "o", "u", "s", " ", "ê", "t", "e", "s">>, <<"i", "l", "s", " ", "s", "o", "n", "t">>, <<"e", "l", "l", "e", "s", " ", "s", "o", "n", "t">>>>
        n == Len(s)
        \* the position after the white space that follows subject k at i, 0 if
        \* no word character follows
        wordAfter(i, k) ==
            LET from == i + Len(etreSubjects[k])
                next == IF \E j \in from..n : s[j] \notin SpaceChars
                        THEN CHOOSE j \in from..n :
                                 /\ s[j] \notin SpaceChars
                                 /\ \A m \in from..(j - 1) : s[m] \in SpaceChars
                        ELSE 0
            IN  IF next > from /\ s[next] \in WordChars THEN next ELSE 0
        matches(i, k) == /\ wordBoundary(s, i)
                         /\ matchAt(s, i, etreSubjects[k])
                         /\ wordAfter(i, k) # 0
        at(i) == \E k \in 1..Len(etreSubjects) : matches(i, k)
        i == FirstIndex({x \in 1..n : at(x)})
    IN  IF i = 0 THEN Null
        ELSE LET matchesHere(k) == matches(i, k)
                 k == FirstIndex({x \in 1..Len(etreSubjects) : matchesHere(x)})
                 j == wordAfter(i, k)
                 last == CHOOSE e \in j..n :
                             /\ \A m \in j..e : s[m] \in WordChars
                             /\ (e = n \/ s[e + 1] \notin WordChars)
             IN  [subject |-> etreSubjects[k], participle |-> SubSeq(s, j, last)]

detectVerbConjugationErrors(original, corrected, desc) ==
    LET etreVerbs ==
            <<<<"a", "l", "l", "é">>, <<"v", "e", "n", "u">>, <<"a", "r", "r", "i", "v", "é">>, <<"p", "a", "r", "t", "i">>, <<"e", "n", "t", "r", "é">>, <<"s", "o", "r", "t", "i">>,
              <<"m", "o", "n", "t", "é">>, <<"d", "e", "s", "c", "e", "n", "d", "u">>, <<"n", "é">>, <<"m", "o", "r", "t">>, <<"r", "e", "s", "t", "é">>, <<"t", "o", "m", "b", "é">>,
              <<"r", "e", "t", "o", "u", "r", "n", "é">>, <<"d", "e", "v", "e", "n", "u">>>>
        origMatch == matchPcEtre(original)
        corrMatch == matchPcEtre(corrected)
        structural ==
            /\ origMatch # Null
            /\ corrMatch # Null
            /\ origMatch.participle # corrMatch.participle
            /\ \E v \in 1..Len(etreVerbs) :
                   matchAt(corrMatch.participle, 1, etreVerbs[v])
    IN  IF structural
        THEN FromStructure("passe-compose-etre", 90,
                           [wrongForm |-> origMatch.participle,
                            correctForm |-> corrMatch.participle,
                            subject |-> origMatch.subject])
        ELSE IF \/ includes(desc, <<"c", "o", "n", "j", "u", "g", "a", "t", "i", "o", "n">>)
                \/ includes(desc, <<"v", "e", "r", "b">>)
                \/ includes(desc, <<"t", "e", "n", "s", "e">>)
        THEN IF includes(desc, <<"p", "a", "s", "s", "é">>) \/ includes(desc, <<"p", "a", "s", "t">>)
             THEN FromDescription("passe-compose-etre", 60)
             ELSE FromDescription("present-tense-regular-er", 50)
        ELSE NoDetection

detectAdjectiveAgreementErrors(original, corrected, desc) ==
    LET irregularPairs ==
            <<<<<<"b", "e", "a", "u">>, <<"b", "e", "l", "l", "e">>>>, <<<<"b", "e", "a", "u">>, <<"b", "e", "a", "u", "x">>>>,
              <<<<"b", "e", "l", "l", "e">>, <<"b", "e", "l", "l", "e", "s">>>>, <<<<"n", "o", "u", "v", "e", "a", "u">>, <<"n", "o", "u", "v", "e", "l", "l", "e">>>>,
              <<<<"n", "o", "u", "v", "e", "a", "u">>, <<"n", "o", "u", "v", "e", "a", "u", "x">>>>, <<<<"n", "o", "u", "v", "e", "l", "l", "e">>, <<"n", "o", "u", "v", "e", "l", "l", "e", "s">>>>,
              <<<<"v", "i", "e", "u", "x">>, <<"v", "i", "e", "i", "l", "l", "e">>>>, <<<<"v", "i", "e", "u", "x">>, <<"v", "i", "e", "i", "l", "l", "e", "s">>>>>>
        originalWords == splitSpaces(original)
        correctedWords == splitSpaces(corrected)
        origWord(i) == originalWords[i]
        corrWord(i) == correctedWords[i]
        feminine(i) == \/ corrWord(i) = origWord(i) \o <<"e">>
                       \/ corrWord(i) = origWord(i) \o <<"e", "s">>
        plural(i) == corrWord(i) = origWord(i) \o <<"s">>
        irregular(i) ==
            \E p \in 1..Len(irregularPairs) :
                \/ origWord(i) = irregularPairs[p][1] /\ corrWord(i) = irregularPairs[p][2]
                \/ origWord(i) = irregularPairs[p][2] /\ corrWord(i) = irregularPairs[p][1]
        agrees(i) == /\ origWord(i) # corrWord(i)
                     /\ (feminine(i) \/ plural(i) \/ irregular(i))
        i == FirstIndex({x \in 1..Min(Len(originalWords), Len(correctedWords)) : agrees(x)})
    IN  IF i # 0
        THEN FromStructure("adjective-agreement",
                           IF feminine(i) \/ plural(i) THEN 85 ELSE 90,
                           [wrongForm |-> origWord(i),
                            correctForm |-> corrWord(i),
                            agreementType |->
                                IF feminine(i) THEN "feminine/plural"
                                ELSE IF plural(i) THEN "plural" ELSE "irregular"])
        ELSE IF \/ includes(desc, <<"a", "d", "j", "e", "c", "t", "i", "v", "e">>)
                \/ includes(desc, <<"a", "g", "r", "e", "e", "m", "e", "n", "t">>)
                \/ includes(desc, <<"a", "c", "c", "o", "r", "d">>)
        THEN FromDescription("adjective-agreement", 60)
        ELSE NoDetection

detectPrepositionErrors(original, corrected, desc) ==
    LET prepositionChanges ==
            <<[from |-> <<"à">>, to |-> <<"e", "n">>, type |-> "prepositions-place"],
              [from |-> <<"e", "n">>, to |-> <<"a", "u">>, type |-> "prepositions-place"],
              [from |-> <<"d", "e">>, to |-> <<"à">>, type |-> "prepositions-place"]>>
        hit(k) == /\ testWord(original, prepositionChanges[k].from)
                  /\ testWord(corrected, prepositionChanges[k].to)
        k == FirstIndex({x \in 1..Len(prepositionChanges) : hit(x)})
    IN  IF k # 0
        THEN FromStructure(prepositionChanges[k].type, 70,
                           [prepositionChange |-> TRUE])
        ELSE IF \/ includes(desc, <<"p", "r", "e", "p", "o", "s", "i", "t", "i", "o", "n">>)
                \/ includes(desc, <<"à">>)
                \/ includes(desc, <<"d", "e">>)
        THEN FromDescription("prepositions-place", 50)
        ELSE NoDetection

detectNegationErrors(original, corrected, desc) ==
    LET testNe(s) == testWord(s, <<"n", "e">>) \/ includes(s, <<"n", "'">>)
        hasNe == testNe(corrected)
        hasPas == testWord(corrected, <<"p", "a", "s">>)
        originalMissingNe == ~testNe(original) /\ testWord(original, <<"p", "a", "s">>)
    IN  IF hasNe /\ hasPas /\ originalMissingNe
        THEN FromStructure("negation-ne-pas", 90, [issue |-> "missing ne"])
        ELSE IF \/ includes(desc, <<"n", "e", "g", "a", "t", "i", "o", "n">>)
                \/ includes(desc, <<"n", "e", "g", "a", "t", "i", "v", "e">>)
                \/ includes(desc, <<"n", "e", ".", ".", ".", "p", "a", "s">>)
        THEN FromDescription("negation-ne-pas", 70)
        ELSE NoDetection

detectPartitiveArticleErrors(original, corrected, desc) ==
    LET partitives == {<<"d", "u">>, <<"d", "e", " ", "l", "a">>, <<"d", "e", " ", "l", "'">>, <<"d", "e", "s">>}
        hasPartitive == \E p \in partitives : includes(corrected, p)
        missingPartitive == ~\E p \in partitives : includes(original, p)
    IN  IF hasPartitive /\ missingPartitive
        THEN FromStructure("partitive-article", 75,
                           [issue |-> "missing partitive article"])
        ELSE IF \/ includes(desc, <<"p", "a", "r", "t", "i", "t", "i", "v", "e">>)
                \/ includes(desc, <<"a", "r", "t", "i", "c", "l", "e", " ", "p", "a", "r", "t", "i", "t", "i", "f">>)
        THEN FromDescription("partitive-article", 70)
        ELSE NoDetection

detectPronounErrors(original, corrected, desc) ==
    IF includes(desc, <<"p", "r", "o", "n", "o", "u", "n">>) \/ includes(desc, <<"p", "r", "o", "n", "o", "m">>)
    THEN FromDescription("direct-object-pronouns", 60)
    ELSE NoDetection

\* the results of the eight detectors, in the order of the array `detectors`
detections(original, corrected, desc) ==
    <<detectContractionErrors(original, corrected, desc),
      detectGenderArticleErrors(original, corrected, desc),
      detectVerbConjugationErrors(original, corrected, desc),
      detectAdjectiveAgreementErrors(original, corrected, desc),
      detectPrepositionErrors(original, corrected, desc),
      detectNegationErrors(original, corrected, desc),
      detectPartitiveArticleErrors(original, corrected, desc),
      detectPronounErrors(original, corrected, desc)>>

\* { type: 'unknown', confidence: 0, rule: null, details: {} }
UnknownMatch ==
    [type |-> "unknown", confidence |-> 0, rule |-> Null, details |-> <<>>]

\* a comparison that lets a later detector win a tie
better_OrEqual(result, bestMatch) == result.confidence >= bestMatch.confidence

\* result.confidence > bestMatch.confidence
better(result, bestMatch) == result.confidence > bestMatch.confidence

\* the loop of detectErrorType from detector k on
RECURSIVE bestMatchFrom(_, _, _)
bestMatchFrom(results, k, bestMatch) ==
    IF k > Len(results) THEN bestMatch
    ELSE bestMatchFrom(results, k + 1,
             IF better(results[k], bestMatch) THEN results[k] ELSE bestMatch)

detectErrorType(original, corrected, errorDescription) ==
    IF original = <<>> \/ corrected = <<>>
    THEN [type |-> "unknown", confidence |-> 0, rule |-> Null]
    ELSE bestMatchFrom(detections(trim(toLowerCase(original)),
                                  trim(toLowerCase(corrected)),
                                  toLowerCase(errorDescription)),
                       1, UnknownMatch)

---------------------------------------------------------------------------
(* Quiz generator (utils/quizGenerator.js).  A question is the record of   *)
(* its fields without the id (clock and Math.random).  The values that     *)
(* Math.random returns during a call are the input `random` of the call.   *)
(* A list the code shuffles with sort(() => Math.random() - 0.5) is kept   *)
(* in the order it had before the shuffle and marked shuffled: its order   *)
(* is random, its entries and their multiplicities are not.                *)

\* the outcome of a call that throws a TypeError (a property access on
\* undefined); a call that returns has the outcome
\* [threw |-> FALSE, value |-> the value returned]
Thrown == [threw |-> TRUE]

\* undefined where the code expects a text: no sequence of characters
UndefinedText == <<"undefined">>

\* object.field of a field that holds a text: undefined when the object has
\* no such field
GetText(object, field) ==
    IF field \in DOMAIN object THEN object[field] ELSE UndefinedText

\* ${text} in a template literal
Text(text) == IF text = UndefinedText THEN <<"u", "n", "d", "e", "f", "i", "n", "e", "d">> ELSE text

\* list.sort(() => Math.random() - 0.5)
Shuffled(list) == [entries |-> list, shuffled |-> TRUE]

\* a list the code leaves in its order
Ordered(list) == [entries |-> list, shuffled |-> FALSE]

\* list[Math.floor(Math.random() * list.length)] for a draw `random` (from 1)
pick(random, length) == (random % length) + 1

\* s.split(separator) for a one-character separator
split(s, separator) ==
    LET n == Len(s)
        cuts == {i \in 1..n : s[i] = separator}
        count == Cardinality(cuts) + 1
        cut(k) == IF k = 0 THEN 0
                  ELSE IF k = count THEN n + 1
                  ELSE CHOOSE i \in cuts : Cardinality({j \in cuts : j <= i}) = k
    IN  SubSeq([k \in 1..count |-> SubSeq(s, cut(k - 1) + 1, cut(k) - 1)], 1, count)

\* words.join(separator)
RECURSIVE join(_, _)
join(words, separator) ==
    IF Len(words) = 0 THEN <<>>
    ELSE IF Len(words) = 1 THEN words[1]
    ELSE words[1] \o separator \o join(Tail(words), separator)

\* s.replace(part, by): the first occurrence; with wholeWord, s.replace(/\bpart\b/, by)
replace(s, part, by, wholeWord) ==
    LET at(i) == /\ matchAt(s, i, part)
                 /\ wholeWord => /\ wordBoundary(s, i)
                                 /\ wordBoundary(s, i + Len(part))
        i == FirstIndex({x \in 1..Len(s) : at(x)})
    IN  IF i = 0 THEN s
        ELSE SubSeq(s, 1, i - 1) \o by \o SubSeq(s, i + Len(part), Len(s))

\* [...new Set(list)]: the first occurrence of every value, in order
unique(list) ==
    LET keep == {i \in 1..Len(list) : \A j \in 1..(i - 1) : list[j] # list[i]}
        nth(k) == CHOOSE i \in keep : Cardinality({j \in keep : j <= i}) = k
    IN  SubSeq([k \in 1..Cardinality(keep) |-> list[nth(k)]], 1, Cardinality(keep))

generateRuleDistractors(rule) ==
    LET templates ==
            CASE rule.category = <<"c", "o", "n", "t", "r", "a", "c", "t", "i", "o", "n", "s">> ->
                   <<<<"A", "r", "t", "i", "c", "l", "e", "s", " ", "n", "e", "v", "e", "r", " ", "c", "o", "n", "t", "r", "a", "c", "t", " ", "w", "i", "t", "h", " ", "p", "r", "e", "p", "o", "s", "i", "t", "i", "o", "n", "s", " ", "i", "n", " ", "F", "r", "e", "n", "c", "h">>,
                     <<"C", "o", "n", "t", "r", "a", "c", "t", "i", "o", "n", "s", " ", "a", "r", "e", " ", "o", "p", "t", "i", "o", "n", "a", "l", " ", "d", "e", "p", "e", "n", "d", "i", "n", "g", " ", "o", "n", " ", "f", "o", "r", "m", "a", "l", "i", "t", "y">>,
                     <<"O", "n", "l", "y", " ", "p", "l", "u", "r", "a", "l", " ", "a", "r", "t", "i", "c", "l", "e", "s", " ", "c", "o", "n", "t", "r", "a", "c", "t", " ", "w", "i", "t", "h", " ", "p", "r", "e", "p", "o", "s", "i", "t", "i", "o", "n", "s">>>>
              [] rule.category = <<"g", "e", "n", "d", "e", "r", "-", "a", "g", "r", "e", "e", "m", "e", "n", "t">> ->
                   <<<<"A", "l", "l", " ", "n", "o", "u", "n", "s", " ", "e", "n", "d", "i", "n", "g", " ", "i", "n", " ", "-", "e", " ", "a", "r", "e", " ", "f", "e", "m", "i", "n", "i", "n", "e">>,
                     <<"A", "r", "t", "i", "c", "l", "e", "s", " ", "m", "u", "s", "t", " ", "m", "a", "t", "c", "h", " ", "t", "h", "e", " ", "f", "i", "r", "s", "t", " ", "l", "e", "t", "t", "e", "r", " ", "o", "f", " ", "t", "h", "e", " ", "n", "o", "u", "n">>,
                     <<"G", "e", "n", "d", "e", "r", " ", "a", "g", "r", "e", "e", "m", "e", "n", "t", " ", "i", "s", " ", "o", "n", "l", "y", " ", "r", "e", "q", "u", "i", "r", "e", "d", " ", "i", "n", " ", "w", "r", "i", "t", "t", "e", "n", " ", "F", "r", "e", "n", "c", "h">>>>
              [] rule.category = <<"v", "e", "r", "b", "-", "c", "o", "n", "j", "u", "g", "a", "t", "i", "o", "n">> ->
                   <<<<"A", "l", "l", " ", "v", "e", "r", "b", "s", " ", "u", "s", "e", " ", "a", "v", "o", "i", "r", " ", "i", "n", " ", "p", "a", "s", "s", "é", " ", "c", "o", "m", "p", "o", "s", "é">>,
                     <<"P", "a", "s", "t", " ", "p", "a", "r", "t", "i", "c", "i", "p", "l", "e", "s", " ", "n", "e", "v", "e", "r", " ", "c", "h", "a", "n", "g", "e", " ", "f", "o", "r", "m">>,
                     <<"S", "u", "b", "j", "e", "c", "t", " ", "a", "g", "r", "e", "e", "m", "e", "n", "t", " ", "i", "s", " ", "o", "p", "t", "i", "o", "n", "a", "l", " ", "i", "n", " ", "c", "o", "m", "p", "o", "u", "n", "d", " ", "t", "e", "n", "s", "e", "s">>>>
              [] rule.category = <<"a", "d", "j", "e", "c", "t", "i", "v", "e", "-", "a", "g", "r", "e", "e", "m", "e", "n", "t">> ->
                   <<<<"A", "d", "j", "e", "c", "t", "i", "v", "e", "s", " ", "i", "n", " ", "F", "r", "e", "n", "c", "h", " ", "n", "e", "v", "e", "r", " ", "c", "h", "a", "n", "g", "e", " ", "f", "o", "r", "m">>,
                     <<"A", "g", "r", "e", "e", "m", "e", "n", "t", " ", "i", "s", " ", "o", "n", "l", "y", " ", "n", "e", "e", "d", "e", "d", " ", "f", "o", "r", " ", "i", "r", "r", "e", "g", "u", "l", "a", "r", " ", "a", "d", "j", "e", "c", "t", "i", "v", "e", "s">>,
                     <<"F", "e", "m", "i", "n", "i", "n", "e", " ", "a", "d", "j", "e", "c", "t", "i", "v", "e", "s", " ", "a", "l", "w", "a", "y", "s", " ", "e", "n", "d", " ", "i", "n", " ", "-", "e">>>>
              [] rule.category = <<"p", "r", "e", "p", "o", "s", "i", "t", "i", "o", "n", "s">> ->
                   <<<<"A", "l", "l", " ", "c", "o", "u", "n", "t", "r", "i", "e", "s", " ", "u", "s", "e", " ", "t", "h", "e", " ", "p", "r", "e", "p", "o", "s", "i", "t", "i", "o", "n", " ", "\"", "à", "\"">>,
                     <<"P", "r", "e", "p", "o", "s", "i", "t", "i", "o", "n", "s", " ", "i", "n", " ", "F", "r", "e", "n", "c", "h", " ", "a", "r", "e", " ", "i", "n", "t", "e", "r", "c", "h", "a", "n", "g", "e", "a", "b", "l", "e">>,
                     <<"U", "s", "e", " ", "\"", "e", "n", "\"", " ", "f", "o", "r", " ", "a", "l", "l", " ", "g", "e", "o", "g", "r", "a", "p", "h", "i", "c", "a", "l", " ", "l", "o", "c", "a", "t", "i", "o", "n", "s">>>>
              [] rule.category = <<"n", "e", "g", "a", "t", "i", "o", "n">> ->
                   <<<<"O", "n", "l", "y", " ", "\"", "p", "a", "s", "\"", " ", "i", "s", " ", "n", "e", "e", "d", "e", "d", " ", "f", "o", "r", " ", "n", "e", "g", "a", "t", "i", "o", "n">>,
                     <<"N", "e", "g", "a", "t", "i", "o", "n", " ", "c", "o", "m", "e", "s", " ", "a", "f", "t", "e", "r", " ", "t", "h", "e", " ", "v", "e", "r", "b", " ", "i", "n", " ", "F", "r", "e", "n", "c", "h">>,
                     <<"\"", "N", "e", "\"", " ", "i", "s", " ", "o", "p", "t", "i", "o", "n", "a", "l", " ", "i", "n", " ", "s", "p", "o", "k", "e", "n", " ", "F", "r", "e", "n", "c", "h">>>>
              [] OTHER ->
                   <<<<"T", "h", "i", "s", " ", "r", "u", "l", "e", " ", "h", "a", "s", " ", "m", "a", "n", "y", " ", "e", "x", "c", "e", "p", "t", "i", "o", "n", "s">>,
                     <<"U", "s", "a", "g", "e", " ", "v", "a", "r", "i", "e", "s", " ", "b", "y", " ", "r", "e", "g", "i", "o", "n">>,
                     <<"B", "o", "t", "h", " ", "f", "o", "r", "m", "s", " ", "a", "r", "e", " ", "e", "q", "u", "a", "l", "l", "y", " ", "c", "o", "r", "r", "e", "c", "t">>>>
        relatedRule ==
            IF "relatedRules" \in DOMAIN rule /\ Len(rule.relatedRules) > 0
            THEN ruleOf(rule.relatedRules[1]) ELSE Undefined
        distractors ==
            IF relatedRule # Undefined /\ relatedRule.rule # rule.rule
            THEN Append(slice(templates, 3), relatedRule.rule)
            ELSE slice(templates, 3)
    IN  slice(distractors, 3)

generateRuleExplanationQuestion(error, rule) ==
    [type |-> "rule_explanation",
     difficulty |-> "understand",
     question |-> <<"W", "h", "y", " ", "i", "s", " ", "\"">> \o Text(GetText(error, "suggestion"))
                  \o <<"\"", " ", "c", "o", "r", "r", "e", "c", "t", " ", "i", "n", "s", "t", "e", "a", "d", " ", "o", "f", " ", "\"">> \o Text(GetText(error, "example"))
                  \o <<"\"", "?">>,
     options |-> Shuffled(<<rule.rule>> \o generateRuleDistractors(rule)),
     correctAnswer |-> rule.rule,
     explanation |-> rule.explanation,
     points |-> 10]

\* the options of a multiple-choice application question; correctAnswer.includes
\* and correctAnswer.replace throw when the answer is undefined
generateApplicationOptions(correctAnswer, rule) ==
    LET \* s.replace(/é(e?)s?$/, by)
        replaceEnding(s, by) ==
            LET at(i) == /\ s[i] = "é"
                         /\ SubSeq(s, i + 1, Len(s)) \in {<<>>, <<"e">>, <<"s">>, <<"e", "s">>}
                i == FirstIndex({x \in 1..Len(s) : at(x)})
            IN  IF i = 0 THEN s ELSE SubSeq(s, 1, i - 1) \o by
        wrong ==
            IF rule.category = <<"c", "o", "n", "t", "r", "a", "c", "t", "i", "o", "n", "s">>
            THEN IF includes(correctAnswer, <<"a", "u", " ">>)
                 THEN <<replace(correctAnswer, <<"a", "u", " ">>, <<"à", " ", "l", "e", " ">>, FALSE),
                        replace(correctAnswer, <<"a", "u", " ">>, <<"à", " ", "l", "a", " ">>, FALSE),
                        replace(correctAnswer, <<"a", "u", " ">>, <<"a", "u", "x", " ">>, FALSE)>>
                 ELSE IF includes(correctAnswer, <<"d", "u", " ">>)
                 THEN <<replace(correctAnswer, <<"d", "u", " ">>, <<"d", "e", " ", "l", "e", " ">>, FALSE),
                        replace(correctAnswer, <<"d", "u", " ">>, <<"d", "e", " ", "l", "a", " ">>, FALSE),
                        replace(correctAnswer, <<"d", "u", " ">>, <<"d", "e", "s", " ">>, FALSE)>>
                 ELSE <<>>
            ELSE IF rule.category = <<"g", "e", "n", "d", "e", "r", "-", "a", "g", "r", "e", "e", "m", "e", "n", "t">>
            THEN <<replace(correctAnswer, <<"l", "e">>, <<"l", "a">>, TRUE),
                   replace(correctAnswer, <<"l", "a">>, <<"l", "e">>, TRUE),
                   replace(correctAnswer, <<"u", "n">>, <<"u", "n", "e">>, TRUE),
                   replace(correctAnswer, <<"u", "n", "e">>, <<"u", "n">>, TRUE)>>
            ELSE IF rule.category = <<"v", "e", "r", "b", "-", "c", "o", "n", "j", "u", "g", "a", "t", "i", "o", "n">>
            THEN <<replaceEnding(correctAnswer, <<"e", "r">>),
                   replaceEnding(correctAnswer, <<"é">>)>>
            ELSE <<Text(correctAnswer) \o <<" ", "(", "i", "n", "c", "o", "r", "r", "e", "c", "t", " ", "f", "o", "r", "m", ")">>,
                   <<"B", "o", "t", "h", " ", "f", "o", "r", "m", "s", " ", "a", "r", "e", " ", "c", "o", "r", "r", "e", "c", "t">>>>
        throws ==
            /\ correctAnswer = UndefinedText
            /\ rule.category \in {<<"c", "o", "n", "t", "r", "a", "c", "t", "i", "o", "n", "s">>, <<"g", "e", "n", "d", "e", "r", "-", "a", "g", "r", "e", "e", "m", "e", "n", "t">>,
                                  <<"v", "e", "r", "b", "-", "c", "o", "n", "j", "u", "g", "a", "t", "i", "o", "n">>}
        isWrong(option) == option # correctAnswer
        uniqueOptions == SelectSeq(unique(<<correctAnswer>> \o wrong), isWrong)
    IN  IF throws THEN Thrown
        ELSE Shuffled(<<correctAnswer>> \o slice(uniqueOptions, 3))

\* a question, null, or Thrown
generateApplicationQuestion(error, rule, random) ==
    LET practices == IF "practice" \in DOMAIN rule THEN rule.practice ELSE <<>>
        examples == IF "examples" \in DOMAIN rule THEN rule.examples ELSE <<>>
        example == examples[pick(random.example, Len(examples))]
        practice ==
            IF Len(practices) > 0
            THEN practices[pick(random.practice, Len(practices))]
            ELSE [prompt |-> <<"F", "i", "x", " ", "t", "h", "i", "s", " ", "s", "e", "n", "t", "e", "n", "c", "e", ":", " ">> \o Text(GetText(example, "incorrect")),
                  answer |-> GetText(example, "correct")]
        question ==
            [difficulty |-> "apply",
             question |-> practice.prompt,
             correctAnswer |-> practice.answer,
             explanation |-> <<"T", "h", "e", " ", "c", "o", "r", "r", "e", "c", "t", " ", "a", "n", "s", "w", "e", "r", " ", "a", "p", "p", "l", "i", "e", "s", " ", "t", "h", "e", " ", "r", "u", "l", "e", ":", " ">> \o rule.rule,
             points |-> 15,
             hint |-> IF "hint" \in DOMAIN practice THEN practice.hint ELSE Undefined]
        options == generateApplicationOptions(practice.answer, rule)
    IN  IF Len(practices) = 0 /\ Len(examples) = 0 THEN Null
        ELSE IF \/ includes(practice.prompt, <<"T", "r", "a", "n", "s", "f", "o", "r", "m", ":">>)
                \/ includes(practice.prompt, <<"F", "i", "x", ":">>)
        THEN IF options = Thrown THEN Thrown
             ELSE [name \in DOMAIN question \cup {"type", "options"} |->
                      IF name = "type" THEN "multiple_choice"
                      ELSE IF name = "options" THEN options
                      ELSE question[name]]
        ELSE [name \in DOMAIN question \cup {"type"} |->
                 IF name = "type" THEN "fill_in_blank" ELSE question[name]]

\* a question or null
generateErrorIdentificationQuestion(error, rule) ==
    LET examples == IF "examples" \in DOMAIN rule THEN rule.examples ELSE <<>>
        \* ex.correct and ex.incorrect as conditions: a missing or empty text
        \* is falsy
        hasCorrect(ex) == "correct" \in DOMAIN ex /\ ex.correct # <<>>
        hasIncorrect(ex) == "incorrect" \in DOMAIN ex /\ ex.incorrect # <<>>
        withCorrect == SelectSeq(examples, hasCorrect)
        correctSentences ==
            slice(SubSeq([k \in 1..Len(withCorrect) |-> withCorrect[k].correct],
                         1, Len(withCorrect)), 2)
        withIncorrect == SelectSeq(examples, hasIncorrect)
        incorrectSentence ==
            IF Len(withIncorrect) > 0 THEN withIncorrect[1].incorrect
            ELSE GetText(error, "example")
        \* rule.category.replace(/-/g, ' ')
        category ==
            SubSeq([i \in 1..Len(rule.category) |->
                       IF rule.category[i] = "-" THEN " " ELSE rule.category[i]],
                   1, Len(rule.category))
    IN  IF Len(examples) < 2 THEN Null
        ELSE [type |-> "error_identification",
              difficulty |-> "recognize",
              question |-> <<"W", "h", "i", "c", "h", " ", "s", "e", "n", "t", "e", "n", "c", "e", " ", "h", "a", "s", " ", "a", " ">> \o category \o <<" ", "e", "r", "r", "o", "r", "?">>,
              options |-> Shuffled(Append(correctSentences, incorrectSentence)),
              correctAnswer |-> incorrectSentence,
              explanation |-> <<"\"">> \o Text(incorrectSentence)
                              \o <<"\"", " ", "c", "o", "n", "t", "a", "i", "n", "s", " ", "a", "n", " ", "e", "r", "r", "o", "r", ".", " ">> \o rule.rule,
              points |-> 10]

generateBlankOptions(correctAnswer, rule) ==
    LET lower == toLowerCase(correctAnswer)
        others ==
            IF rule.category = <<"c", "o", "n", "t", "r", "a", "c", "t", "i", "o", "n", "s">>
            THEN IF lower = <<"a", "u">> THEN <<<<"à", " ", "l", "e">>, <<"à", " ", "l", "a">>, <<"a", "u", "x">>>>
                 ELSE IF lower = <<"d", "u">> THEN <<<<"d", "e", " ", "l", "e">>, <<"d", "e", " ", "l", "a">>, <<"d", "e", "s">>>>
                 ELSE IF lower = <<"a", "u", "x">> THEN <<<<"à", " ", "l", "e", "s">>, <<"a", "u">>, <<"à", " ", "l", "a">>>>
                 ELSE <<>>
            ELSE IF \/ rule.category = <<"g", "e", "n", "d", "e", "r", "-", "a", "g", "r", "e", "e", "m", "e", "n", "t">>
                    \/ includes(rule.category, <<"a", "r", "t", "i", "c", "l", "e">>)
            THEN IF lower = <<"l", "e">> THEN <<<<"l", "a">>, <<"l", "e", "s">>, <<"u", "n">>>>
                 ELSE IF lower = <<"l", "a">> THEN <<<<"l", "e">>, <<"l", "e", "s">>, <<"u", "n", "e">>>>
                 ELSE IF lower = <<"u", "n">> THEN <<<<"u", "n", "e">>, <<"l", "e">>, <<"d", "e", "s">>>>
                 ELSE IF lower = <<"u", "n", "e">> THEN <<<<"u", "n">>, <<"l", "a">>, <<"d", "e", "s">>>>
                 ELSE <<>>
            ELSE <<correctAnswer \o <<"s">>, correctAnswer \o <<"e">>,
                   SubSeq(correctAnswer, 1, Len(correctAnswer) - 1)>>
    IN  Ordered(slice(unique(<<correctAnswer>> \o others), 4))

\* a question, null, or Thrown: example.correct.split throws when the example
\* has no field `correct`
generateSentenceConstructionQuestion(error, rule, random) ==
    LET examples == IF "examples" \in DOMAIN rule THEN rule.examples ELSE <<>>
        example == examples[pick(random.example, Len(examples))]
        correctSentence == GetText(example, "correct")
        words == split(correctSentence, " ")
        keyWords ==
            IF rule.category = <<"c", "o", "n", "t", "r", "a", "c", "t", "i", "o", "n", "s">>
            THEN {<<"a", "u">>, <<"d", "u">>, <<"a", "u", "x">>, <<"d", "e", "s">>}
            ELSE IF rule.category = <<"g", "e", "n", "d", "e", "r", "-", "a", "g", "r", "e", "e", "m", "e", "n", "t">>
            THEN {<<"l", "e">>, <<"l", "a">>, <<"u", "n">>, <<"u", "n", "e">>, <<"l", "e", "s">>, <<"d", "e", "s">>}
            ELSE {}
        isKeyWord(i) == toLowerCase(words[i]) \in keyWords
        found == FirstIndex({x \in 1..Len(words) : isKeyWord(x)})
        keyWordIndex == IF found # 0 THEN found ELSE (Len(words) \div 2) + 1
        blank == words[keyWordIndex]
        sentenceWithBlank ==
            join(SubSeq([i \in 1..Len(words) |->
                            IF i = keyWordIndex THEN <<"_", "_", "_", "_">> ELSE words[i]],
                        1, Len(words)), <<" ">>)
    IN  IF Len(examples) = 0 THEN Null
        ELSE IF correctSentence = UndefinedText THEN Thrown
        ELSE [type |-> "fill_in_blank",
              difficulty |-> "apply",
              question |-> <<"F", "i", "l", "l", " ", "i", "n", " ", "t", "h", "e", " ", "b", "l", "a", "n", "k", ":", " ">> \o sentenceWithBlank,
              correctAnswer |-> blank,
              options |-> generateBlankOptions(blank, rule),
              explanation |-> <<"T", "h", "e", " ", "c", "o", "r", "r", "e", "c", "t", " ", "w", "o", "r", "d", " ", "i", "s", " ", "\"">> \o blank \o <<"\"", ".", " ">>
                              \o rule.rule,
              points |-> 15,
              translation |-> IF "translation" \in DOMAIN example
                              THEN example.translation ELSE Undefined]

\* a variant that has nothing to offer without a rule
generateDefaultQuiz_Empty(random) == <<>>

generateDefaultQuiz(random) ==
    LET basicRules == <<"contraction-au", "gender-article-masculine", "negation-ne-pas">>
        rule == frenchGrammarRules[basicRules[pick(random.basic, Len(basicRules))]]
        examples == slice(rule.examples, 3)
    IN  <<[id |-> "default-1",
           type |-> "multiple_choice",
           difficulty |-> "understand",
           question |-> <<"W", "h", "i", "c", "h", " ", "s", "e", "n", "t", "e", "n", "c", "e", " ", "i", "s", " ", "g", "r", "a", "m", "m", "a", "t", "i", "c", "a", "l", "l", "y", " ", "c", "o", "r", "r", "e", "c", "t", "?">>,
           options |-> Ordered(SubSeq([k \in 1..Len(examples) |->
                                          GetText(examples[k], "correct")],
                                      1, Len(examples))),
           correctAnswer |-> GetText(rule.examples[1], "correct"),
           explanation |-> rule.rule,
           points |-> 10]>>

\* the questions a list of generator results contributes: a throw of any of
\* them leaves the call, null is dropped
questionsOf(results) ==
    LET isQuestion(result) == result # Null
    IN  IF \E k \in 1..Len(results) : results[k] = Thrown THEN Thrown
        ELSE [threw |-> FALSE, value |-> SelectSeq(results, isQuestion)]

\* !error || !error.grammarRule
noGrammarRule(error) ==
    \/ "grammarRule" \notin DOMAIN error
    \/ error.grammarRule = Null
    \/ error.grammarRule = Undefined

generateQuizFromError(error, numQuestions, random) ==
    LET rule == error.grammarRule
        \* the result of the generator that the shuffle put at place i; the
        \* generators after a throwing one are not called
        generated(k) ==
            CASE k = 1 -> generateRuleExplanationQuestion(error, rule)
              [] k = 2 -> generateApplicationQuestion(error, rule, random)
              [] k = 3 -> generateErrorIdentificationQuestion(error, rule)
              [] k = 4 -> generateSentenceConstructionQuestion(error, rule, random)
        count == Min(numQuestions, 4)
    IN  IF noGrammarRule(error) THEN [threw |-> FALSE, value |-> generateDefaultQuiz(random)]
        ELSE questionsOf(SubSeq([i \in 1..count |-> generated(random.order[i])],
                                1, count))

\* a variant that ignores the level and mixes the generators
generateProgressiveQuiz_Ungated(error, userLevel, random) ==
    generateQuizFromError(error, 2, random)

generateProgressiveQuiz(error, userLevel, random) ==
    LET rule == error.grammarRule
    IN  IF noGrammarRule(error) THEN [threw |-> FALSE, value |-> generateDefaultQuiz(random)]
        ELSE CASE userLevel = 1 ->
                    questionsOf(<<generateErrorIdentificationQuestion(error, rule)>>)
               [] userLevel = 2 ->
                    questionsOf(<<generateErrorIdentificationQuestion(error, rule),
                                  generateRuleExplanationQuestion(error, rule)>>)
               [] userLevel = 3 ->
                    questionsOf(<<generateRuleExplanationQuestion(error, rule),
                                  generateApplicationQuestion(error, rule, random)>>)
               [] userLevel = 4 ->
                    questionsOf(<<generateApplicationQuestion(error, rule, random),
                                  generateSentenceConstructionQuestion(error, rule, random)>>)
               [] OTHER -> generateQuizFromError(error, 2, random)

\* validateAnswer(question, userAnswer) for a question object: an answer that
\* is undefined or '' is not validated; the answers are compared after
\* str.toLowerCase().trim().replace(/[.,!?;]/g, ''), in this order
validateAnswer(question, userAnswer) ==
    LET marks == {".", ",", "!", "?", ";"}
        unmarked(c) == c \notin marks
        normalize(str) == SelectSeq(trim(toLowerCase(str)), unmarked)
        isCorrect == normalize(userAnswer) = normalize(question.correctAnswer)
    IN  IF userAnswer \in {UndefinedText, <<>>}
        THEN [correct |-> FALSE,
              feedback |-> <<"P", "l", "e", "a", "s", "e", " ", "p", "r", "o", "v", "i", "d", "e", " ", "a", "n", " ", "a", "n", "s", "w", "e", "r", ".">>]
        ELSE [correct |-> isCorrect,
              feedback |->
                  IF isCorrect
                  THEN <<"C", "o", "r", "r", "e", "c", "t", "!", " ">> \o Text(question.explanation)
                  ELSE <<"N", "o", "t", " ", "q", "u", "i", "t", "e", ".", " ", "T", "h", "e", " ", "c", "o", "r", "r", "e", "c", "t", " ", "a", "n", "s", "w", "e", "r", " ", "i", "s", " ", "\"">> \o Text(question.correctAnswer)
                       \o <<"\"", ".", " ">> \o Text(question.explanation),
              points |-> IF isCorrect THEN question.points ELSE 0,
              correctAnswer |-> question.correctAnswer]

\* one element of the array analyzeErrors returns (without its index)
analyzeError(error) ==
    LET detection == detectErrorType(error.example, error.suggestion, error.issue)
    IN  [example |-> error.example,
         suggestion |-> error.suggestion,
         issue |-> error.issue,
         detectedType |-> detection.type,
         confidence |-> detection.confidence,
         grammarRule |-> detection.rule,
         details |-> IF "details" \in DOMAIN detection
                     THEN detection.details ELSE Undefined]

---------------------------------------------------------------------------
(* Operations *)

\* The log of calls: per rule the number of calls, of calls with correct = true,
\* and the points passed with them.
NoCalls == [r \in Rules |-> [n |-> 0, ok |-> 0, pts |-> 0]]

Zones == {-1, 0, 1}

Sessions == {1, 2}

\* no session is inside a call
NoSessions == [s \in Sessions |-> [pc |-> "idle", progress |-> Null, done |-> 0]]

\* no read-only operation has been called
Idle ==
    /\ sessions = NoSessions
    /\ serial = TRUE
    /\ request = Null
    /\ response = Null
    /\ tasks = Null
    /\ trace = Null

Init ==
    /\ localStorage = <<>>
    /\ now = 0
    /\ dstShift = 0
    /\ calls = NoCalls
    /\ practiced = {}
    /\ monotone = TRUE
    /\ Idle

recordAttempt(ruleId, correct, points) ==
    LET progress == getProgressData
        saved == recordAttemptData(progress, ruleId, correct, points, now)
    IN  /\ localStorage' = saveProgressData(saved)
        /\ calls' = [calls EXCEPT ![ruleId] =
                        [n |-> @.n + 1,
                         ok |-> IF correct THEN @.ok + 1 ELSE @.ok,
                         pts |-> IF correct THEN @.pts + points ELSE @.pts]]
        /\ practiced' = practiced \cup {toDateString(now)}
        /\ UNCHANGED <<now, dstShift, monotone, elsewhere>>

resetProgress ==
    /\ localStorage' = removeItem(PROGRESS)
    /\ calls' = NoCalls
    /\ practiced' = {}
    /\ monotone' = TRUE
    /\ UNCHANGED <<now, dstShift, elsewhere>>

\* The system clock moves to another instant (forward as time passes, backward
\* when the user or a time sync sets it back).
setClock(t) ==
    /\ t # now
    /\ now' = t
    /\ monotone' = (monotone /\ t > now)
    /\ UNCHANGED <<localStorage, dstShift, calls, practiced, elsewhere>>

Next ==
    \/ \E ruleId \in Rules, correct \in BOOLEAN, points \in PointValues :
          /\ getProgressData.totalQuizzes < MaxQuizzes
          /\ recordAttempt(ruleId, correct, points)
    \/ resetProgress

Spec == Init /\ [][Next]_vars

NextStreak ==
    \/ \E correct \in BOOLEAN :
          /\ getProgressData.totalQuizzes < MaxStreakCalls
          /\ recordAttempt("contraction-au", correct, 10)
    \/ resetProgress
    \/ \E t \in Instants : setClock(t)

InitStreak ==
    /\ localStorage = <<>>
    /\ now = 0
    /\ dstShift \in Zones
    /\ calls = NoCalls
    /\ practiced = {}
    /\ monotone = TRUE
    /\ Idle

SpecStreak == InitStreak /\ [][NextStreak]_vars

---------------------------------------------------------------------------
(* Vocabulary of the properties *)

\* the UserProgress a tracker operation would load now
progress == getProgressData

\* this step is a recordAttempt call on rule r
Called(r) == calls'[r].n = calls[r].n + 1

\* ... made with correct = true / correct = false
CalledCorrect(r) == Called(r) /\ calls'[r].ok = calls[r].ok + 1

CalledIncorrect(r) == Called(r) /\ calls'[r].ok = calls[r].ok

\* the points passed to a call made with correct = true
PointsOf(r) == calls'[r].pts - calls[r].pts

\* rule r's record before and after the step (a rule never recorded counts
\* as a record with no attempts at level 1, as getRuleMastery reports it)
Before(r) == ruleRecord(progress, r)

After(r) == ruleRecord(progress', r)

---------------------------------------------------------------------------
(* C1: from a fresh or reset store, after N sequential recordAttempt calls on
   one ruleId the rule's record has attempts = N and correct = the number of
   those calls made with correct = true; after no call the rule has no record. *)
C1_AttemptsCounted ==
    \A r \in Rules :
        IF calls[r].n = 0
        THEN r \notin DOMAIN progress.rulesMastery
        ELSE /\ r \in DOMAIN progress.rulesMastery
             /\ progress.rulesMastery[r].attempts = calls[r].n
             /\ progress.rulesMastery[r].correct = calls[r].ok

C1_Witness ==
    \E r \in Rules, q \in Rules :
        /\ r # q
        /\ calls[r].n >= 4 /\ calls[r].ok >= 2 /\ calls[r].ok < calls[r].n
        /\ calls[q].n >= 1
        /\ progress.rulesMastery[r].attempts = calls[r].n

(* C2: the per-rule mastery state machine: after the attempt is counted, with
   accuracy = correct/attempts, accuracy >= 0.9 and attempts >= 5 gives
   level = min(4, level + 1); otherwise accuracy < 0.5 and attempts >= 3 gives
   level = max(1, level - 1); otherwise the level is unchanged.  Five
   consecutive correct attempts on a fresh rule keep level 1 for attempts
   1..4 and reach level 2 at attempt 5. *)
C2_MasteryStateMachine ==
    /\ [][\A r \in Rules : Called(r) =>
            LET old == Before(r).level
                a == After(r).attempts
                c == After(r).correct
            IN  After(r).level =
                    IF 10 * c >= 9 * a /\ a >= 5 THEN Min(4, old + 1)
                    ELSE IF 2 * c < a /\ a >= 3 THEN Max(1, old - 1)
                    ELSE old]_vars
    /\ [](\A r \in Rules :
            /\ (calls[r].n \in 1..4 /\ calls[r].ok = calls[r].n)
                    => progress.rulesMastery[r].level = 1
            /\ (calls[r].n = 5 /\ calls[r].ok = 5)
                    => progress.rulesMastery[r].level = 2)

\* a rule promoted by its first five answers and demoted again by the
\* eleventh (5/11 < 0.5)
C2_Witness ==
    \E r \in Rules :
        /\ r \in DOMAIN progress.rulesMastery
        /\ progress.rulesMastery[r].attempts = 11
        /\ progress.rulesMastery[r].correct = 5
        /\ progress.rulesMastery[r].level = 1

(* C3: a recordAttempt call that leaves a rule with attempts < 3 never demotes
   it and one that leaves it with attempts < 5 never promotes it; so every
   rule record with fewer than 5 attempts has level 1. *)
C3_NoEarlyLevelChange ==
    /\ [][\A r \in Rules : Called(r) =>
            /\ After(r).attempts < 3 => After(r).level >= Before(r).level
            /\ After(r).attempts < 5 => After(r).level <= Before(r).level]_vars
    /\ [](\A r \in DOMAIN progress.rulesMastery :
            progress.rulesMastery[r].attempts < 5 => progress.rulesMastery[r].level = 1)

\* four correct answers out of four: accuracy 1.0, still level 1
C3_Witness ==
    \E r \in DOMAIN progress.rulesMastery :
        /\ progress.rulesMastery[r].attempts = 4
        /\ progress.rulesMastery[r].correct = 4
        /\ progress.rulesMastery[r].level = 1

(* C4: a single answer cannot flip a level: one incorrect call never lowers
   the level of a rule that had accuracy >= 0.9 over >= 5 attempts before the
   call, one correct call never raises the level of a rule that had accuracy
   < 0.5 over >= 3 attempts before it, and the first answer on a new rule
   leaves its level at 1. *)
C4_NoSingleAnswerFlip ==
    [][\A r \in Rules :
        /\ (/\ CalledIncorrect(r)
            /\ Before(r).attempts >= 5
            /\ 10 * Before(r).correct >= 9 * Before(r).attempts)
                => After(r).level >= Before(r).level
        /\ (/\ CalledCorrect(r)
            /\ Before(r).attempts >= 3
            /\ 2 * Before(r).correct < Before(r).attempts)
                => After(r).level <= Before(r).level
        /\ (Called(r) /\ r \notin DOMAIN progress.rulesMastery)
                => After(r).level = 1]_vars

\* five correct answers (level 2), then one wrong answer: still level 2
C4_Witness ==
    \E r \in DOMAIN progress.rulesMastery :
        /\ progress.rulesMastery[r].attempts = 6
        /\ progress.rulesMastery[r].correct = 5
        /\ progress.rulesMastery[r].level = 2

(* C5: each recordAttempt call changes the targeted rule's mastery level by
   at most 1, and the level of every rule record is always within 1..4, in
   every state reachable through recordAttempt and resetProgress. *)
C5_LevelStepAndRange ==
    /\ [][\A r \in Rules : Called(r) =>
            /\ After(r).level - Before(r).level <= 1
            /\ Before(r).level - After(r).level <= 1]_vars
    /\ [](\A r \in DOMAIN progress.rulesMastery :
            progress.rulesMastery[r].level \in 1..4)

\* eight correct answers out of eight: promoted at 5, 6 and 7, capped at 8
C5_Witness ==
    \E r \in DOMAIN progress.rulesMastery :
        /\ progress.rulesMastery[r].attempts = 8
        /\ progress.rulesMastery[r].correct = 8
        /\ progress.rulesMastery[r].level = 4

(* C6: in every state reachable through recordAttempt and resetProgress every
   rule record has attempts >= correct >= 0, and the account totals have
   totalQuizzes >= totalCorrect >= 0. *)
C6_CorrectWithinAttempts ==
    /\ \A r \in DOMAIN progress.rulesMastery :
            /\ progress.rulesMastery[r].attempts >= progress.rulesMastery[r].correct
            /\ progress.rulesMastery[r].correct >= 0
    /\ progress.totalQuizzes >= progress.totalCorrect
    /\ progress.totalCorrect >= 0

\* both a correct and a wrong answer were recorded on one rule
C6_Witness ==
    /\ \E r \in DOMAIN progress.rulesMastery :
            /\ progress.rulesMastery[r].attempts > progress.rulesMastery[r].correct
            /\ progress.rulesMastery[r].correct >= 2
    /\ progress.totalQuizzes > progress.totalCorrect
    /\ progress.totalCorrect >= 2

(* C9: experience accrues only on correct answers: recordAttempt(ruleId, false,
   points) leaves experience, totalCorrect, the rule's correct count and the
   rule's totalPoints unchanged for every points value; recordAttempt(ruleId,
   true, points) increases experience and the rule's totalPoints by exactly
   points; experience never decreases across a call and stays >= 0. *)
C9_ExperienceOnlyOnCorrect ==
    /\ [][\A r \in Rules :
            /\ CalledIncorrect(r) =>
                    /\ progress'.experience = progress.experience
                    /\ progress'.totalCorrect = progress.totalCorrect
                    /\ After(r).correct = Before(r).correct
                    /\ After(r).totalPoints = Before(r).totalPoints
            /\ CalledCorrect(r) =>
                    /\ progress'.experience = progress.experience + PointsOf(r)
                    /\ After(r).totalPoints = Before(r).totalPoints + PointsOf(r)
            /\ Called(r) => progress'.experience >= progress.experience]_vars
    /\ [](progress.experience >= 0)

\* a 10-point and a 600-point correct answer and at least one wrong answer
C9_Witness ==
    /\ progress.experience = 610
    /\ progress.totalCorrect = 2
    /\ progress.totalQuizzes >= 3

(* C10: a recordAttempt call raises the account level by exactly one when,
   after the call's experience update, experience >= experienceRequired(level
   + 1), and otherwise leaves it unchanged; it never advances more than one
   level per call, even when the experience gained crosses several
   thresholds, and a call never lowers the account level. *)
C10_OneLevelPerCall ==
    [][(\E r \in Rules : Called(r)) =>
        /\ progress'.level =
                IF progress'.experience >= getExperienceForLevel(progress.level + 1)
                THEN progress.level + 1
                ELSE progress.level
        /\ progress'.level - progress.level <= 1
        /\ progress'.level >= progress.level]_vars

\* one 600-point answer crossed the thresholds of levels 2 (282) and 3 (519)
\* and the account advanced to level 2 only
C10_Witness ==
    /\ progress.totalQuizzes = 1
    /\ progress.experience >= getExperienceForLevel(3)
    /\ progress.level = 2

---------------------------------------------------------------------------
(* Streak *)

\* the calendar day of the stored lastPracticeDate
LastDay(p) == toDateString(parseDate(p.lastPracticeDate))

\* the streak the calendar-day rule prescribes for a call made at instant t
StreakByCalendar(p, t) ==
    IF p.lastPracticeDate = Null THEN 1
    ELSE IF LastDay(p) = toDateString(t) THEN p.streak
    ELSE IF toDateString(t) = LastDay(p) + 1 THEN p.streak + 1
    ELSE 1

\* the number of consecutive practiced calendar days ending on day d
RECURSIVE ConsecutiveDays(_)
ConsecutiveDays(d) == IF d \notin practiced THEN 0 ELSE 1 + ConsecutiveDays(d - 1)

(* C7: the streak step rule, by calendar-day comparison: a recordAttempt on
   the calendar day of lastPracticeDate leaves streak unchanged; on exactly
   the next calendar day it sets streak = previous streak + 1; on any other
   gap, or on the first-ever record, it sets streak to 1; lastPracticeDate
   becomes the current time. *)
C7_StreakStepRule ==
    [][(\E r \in Rules : Called(r)) =>
        /\ progress'.streak = StreakByCalendar(progress, now)
        /\ progress'.lastPracticeDate = toISOString(now)]_vars

\* The same rule where the zone's UTC offset never changes (every calendar
\* day is 24 hours long): there recordAttempt follows it.
C7_StreakStepRule_FixedOffset ==
    [][(dstShift = 0 /\ \E r \in Rules : Called(r)) =>
        /\ progress'.streak = StreakByCalendar(progress, now)
        /\ progress'.lastPracticeDate = toISOString(now)]_vars

(* C8: after any sequence of recordAttempt calls under a non-decreasing clock
   from a fresh store, the stored streak is the number of consecutive
   calendar days, ending on the day of the most recent attempt, on each of
   which an attempt was recorded (>= 1 once any attempt exists). *)
C8_StreakIsConsecutiveDays ==
    (monotone /\ progress.totalQuizzes > 0) =>
        /\ progress.streak = ConsecutiveDays(LastDay(progress))
        /\ progress.streak >= 1

\* The same count where the zone's UTC offset never changes.
C8_StreakIsConsecutiveDays_FixedOffset ==
    dstShift = 0 => C8_StreakIsConsecutiveDays

---------------------------------------------------------------------------
(* C11: the account level rises in a recordAttempt call only when experience
   crosses the next threshold in that call: it was below experienceRequired(
   level + 1) before the call and is at or above it after; hence a call made
   with correct = false never raises the account level. *)
C11_LevelUpOnlyOnCrossing ==
    [][\A r \in Rules : (Called(r) /\ progress'.level > progress.level) =>
        /\ progress.experience < getExperienceForLevel(progress.level + 1)
        /\ progress'.experience >= getExperienceForLevel(progress.level + 1)
        /\ CalledCorrect(r)]_vars

---------------------------------------------------------------------------
(* Two sessions on one store.  recordAttempt reads the whole record at its *)
(* first statement and writes the whole record at its last; nothing in the *)
(* tracker orders the calls of different sessions (tabs) that share the    *)
(* store, so another session's load or save can fall between the two.      *)

MaxSessionCalls == 2

\* the record a session works on: const progress = getProgressData()
loadProgress_Fresh == DefaultProgress

loadProgress == getProgressData

\* first half of recordAttempt in session s: load
beginAttempt(s, ruleId, correct, points) ==
    /\ sessions[s].pc = "idle"
    /\ sessions' = [sessions EXCEPT ![s] =
                       [pc |-> "loaded", progress |-> loadProgress, done |-> @.done,
                        args |-> [ruleId |-> ruleId, correct |-> correct,
                                  points |-> points]]]
    /\ serial' = (serial /\ \A o \in Sessions \ {s} : sessions[o].pc = "idle")
    /\ UNCHANGED <<localStorage, now, dstShift, calls, practiced, monotone,
                   request, response, tasks, trace>>

\* second half of recordAttempt in session s: modify what was loaded, save
finishAttempt(s) ==
    /\ sessions[s].pc = "loaded"
    /\ LET a == sessions[s].args
           saved == recordAttemptData(sessions[s].progress, a.ruleId, a.correct,
                                      a.points, now)
       IN  /\ localStorage' = saveProgressData(saved)
           /\ calls' = [calls EXCEPT ![a.ruleId] =
                           [n |-> @.n + 1,
                            ok |-> IF a.correct THEN @.ok + 1 ELSE @.ok,
                            pts |-> IF a.correct THEN @.pts + a.points ELSE @.pts]]
    /\ practiced' = practiced \cup {toDateString(now)}
    /\ sessions' = [sessions EXCEPT ![s] =
                       [pc |-> "idle", progress |-> Null, done |-> @.done + 1]]
    /\ UNCHANGED <<now, dstShift, monotone, serial, request, response, tasks,
                   trace>>

NextSessions ==
    \/ \E s \in Sessions, ruleId \in Rules, correct \in BOOLEAN :
          /\ sessions[s].done < MaxSessionCalls
          /\ beginAttempt(s, ruleId, correct, 10)
    \/ \E s \in Sessions : finishAttempt(s)

SpecSessions == Init /\ [][NextSessions]_vars

\* the number of recordAttempt calls that have returned
Completed == calls["contraction-au"].n + calls["contraction-du"].n

\* C12: as long as the calls of the sessions are serialized every call is kept:
\* totalQuizzes and each rule's attempts equal the number of completed calls;
\* when loads and saves interleave, completed calls can be missing from the
\* record (C12_Witness: two calls on one rule completed, both counters at 1).
C12_LostUpdate ==
    /\ serial =>
          /\ progress.totalQuizzes = Completed
          /\ \A r \in Rules : ruleRecord(progress, r).attempts = calls[r].n
    /\ progress.totalQuizzes <= Completed
    /\ \A r \in Rules : ruleRecord(progress, r).attempts <= calls[r].n

C12_Witness ==
    /\ ~serial
    /\ \A s \in Sessions : sessions[s].pc = "idle" /\ sessions[s].done = 1
    /\ calls["contraction-au"].n = 2
    /\ progress.totalQuizzes = 1
    /\ ruleRecord(progress, "contraction-au").attempts = 1

\* ... and when the same two calls are serialized both are kept
C12_SerialWitness ==
    /\ serial
    /\ \A s \in Sessions : sessions[s].pc = "idle" /\ sessions[s].done = 1
    /\ calls["contraction-au"].n = 2
    /\ progress.totalQuizzes = 2
    /\ ruleRecord(progress, "contraction-au").attempts = 2
---------------------------------------------------------------------------
(* A store that holds a text JSON.parse rejects *)

MaxStoreCalls == 4

\* the stored value is overwritten from outside the tracker (another script of
\* the origin, a write cut short): the tracker starts over from what it reads
corruptStore(text) ==
    /\ localStorage' = [k \in DOMAIN localStorage \cup {PROGRESS} |->
                           IF k = PROGRESS THEN text ELSE localStorage[k]]
    /\ calls' = NoCalls
    /\ practiced' = {}
    /\ monotone' = TRUE
    /\ UNCHANGED <<now, dstShift, elsewhere>>

InitStore ==
    /\ \E text \in CorruptTexts : localStorage = [k \in {PROGRESS} |-> text]
    /\ now = 0
    /\ dstShift = 0
    /\ calls = NoCalls
    /\ practiced = {}
    /\ monotone = TRUE
    /\ Idle

NextStore ==
    \/ \E ruleId \in Rules, correct \in BOOLEAN, points \in PointValues :
          /\ getProgressData.totalQuizzes < MaxStoreCalls
          /\ recordAttempt(ruleId, correct, points)
    \/ \E text \in CorruptTexts :
          /\ getItem(PROGRESS) # text
          /\ corruptStore(text)

SpecStore == InitStore /\ [][NextStore]_vars

\* the stored value is there and fails to parse
ParseFails == Truthy(getItem(PROGRESS)) /\ JSONparse(getItem(PROGRESS)).threw

\* C15: while the stored value fails to parse the tracker reads a freshly
\* initialized UserProgress (the getters answer as for a new user), and a
\* recordAttempt call replaces the value by the well-formed record of a first
\* attempt, totalQuizzes = 1.
C15_CorruptStoreStartsFresh ==
    [][ParseFails =>
          /\ progress = DefaultProgress
          /\ \A r \in Rules :
                /\ getRuleMastery(r) = 1
                /\ getRulePerformance(r).status = "new"
                /\ getRulePerformance(r).attempts = 0
          /\ \A r \in Rules : Called(r) =>
                /\ ~ParseFails'
                /\ getItem(PROGRESS)' = JSONstringify(progress')
                /\ progress'.totalQuizzes = 1
                /\ DOMAIN progress'.rulesMastery = {r}
                /\ After(r).attempts = 1
                /\ progress' = recordAttemptData(DefaultProgress, r, CalledCorrect(r),
                                                 PointsOf(r), now)]_vars

\* in SpecStore the store is never absent: a record with one attempt was saved
\* over a text that failed to parse
C15_Witness ==
    /\ Completed = 1
    /\ ~ParseFails
    /\ progress.totalQuizzes = 1
    /\ progress.totalCorrect = 1
---------------------------------------------------------------------------
(* Reported status *)

\* C14: getRulePerformance reports one of new / struggling / progressing /
\* mastered: new exactly for a rule without attempts; otherwise mastered when
\* accuracy >= 0.9 with at least 5 attempts, struggling when accuracy < 0.5,
\* and progressing in every other case (0.5 <= accuracy < 0.9, or accuracy
\* >= 0.9 with fewer than 5 attempts).
C14_StatusOfFour ==
    \A r \in Rules :
        LET m == ruleRecord(progress, r)
            status == getRulePerformance(r).status
        IN  /\ status \in {"new", "struggling", "progressing", "mastered"}
            /\ status = "new" <=> m.attempts = 0
            /\ m.attempts > 0 =>
                  /\ status = "mastered" <=>
                        (accuracyAtLeast(m, 9, 10) /\ m.attempts >= 5)
                  /\ status = "struggling" <=> accuracyBelow(m, 1, 2)
                  /\ status = "progressing" <=>
                        \/ accuracyAtLeast(m, 1, 2) /\ accuracyBelow(m, 9, 10)
                        \/ accuracyAtLeast(m, 9, 10) /\ m.attempts < 5
---------------------------------------------------------------------------
(* Reports over a practised store *)

MaxLimit == 2

ReportRules == {"contraction-au", "contraction-du", "contraction-aux"}

\* what a rule's record can show: <<attempts, correct>>
Profiles ==
    {<<10, 3>>, <<10, 4>>, <<5, 1>>, <<11, 4>>, <<15, 6>>, <<10, 7>>, <<1, 0>>}

\* the profiles of the third rule: one that is weak, one that is not
FewProfiles == {<<11, 4>>, <<1, 0>>}

\* progress after `attempts` further recordAttempt calls on ruleId, the first
\* `correct` of them with correct = true
RECURSIVE practise(_, _, _, _)
practise(data, ruleId, attempts, correct) ==
    IF attempts = 0 THEN data
    ELSE LET saved == recordAttemptData(data, ruleId, correct > 0, 10, now)
         IN  IF saved.totalQuizzes = data.totalQuizzes + 1
             THEN practise(saved, ruleId, attempts - 1, Max(correct - 1, 0))
             ELSE data

RECURSIVE practiseAll(_, _, _)
practiseAll(data, order, profile) ==
    IF order = <<>> THEN data
    ELSE LET saved == practise(data, Head(order), profile[Head(order)][1],
                               profile[Head(order)][2])
         IN  IF saved.totalQuizzes >= data.totalQuizzes
             THEN practiseAll(saved, Tail(order), profile)
             ELSE data

\* The user practises: on a fresh store, a run of recordAttempt calls, rule
\* after rule in the given order, each rule up to its profile.  (The call log
\* covers the rules of Rules.)
practiseRules(order, profile) ==
    /\ getItem(PROGRESS) = Null
    /\ \A i, j \in 1..Len(order) : order[i] = order[j] => i = j
    /\ localStorage' = saveProgressData(practiseAll(DefaultProgress, order, profile))
    /\ calls' = [r \in Rules |-> [n |-> profile[r][1], ok |-> profile[r][2],
                                  pts |-> 10 * profile[r][2]]]
    /\ practiced' = {toDateString(now)}
    /\ UNCHANGED <<now, dstShift, monotone, elsewhere>>

\* a call getWeakRules(limit) and the array it returned
callGetWeakRules(limit) ==
    /\ request' = [op |-> "getWeakRules", limit |-> limit]
    /\ response' \in getWeakRules(limit)
    /\ UNCHANGED <<localStorage, now, dstShift, calls, practiced, monotone,
                   sessions, serial, tasks, trace>>

NextReports ==
    \/ \E order \in [1..3 -> ReportRules], profile \in [ReportRules -> Profiles] :
          /\ profile["contraction-aux"] \in FewProfiles
          /\ request = Null
          /\ practiseRules(order, profile)
    \/ \E limit \in 0..MaxLimit :
          /\ request = Null
          /\ callGetWeakRules(limit)

SpecReports == Init /\ [][NextReports]_vars

\* accuracy of a before that of b by 0.1 or more / a's accuracy below b's
AccuracyApart(a, b) ==
    LET d == a.correct * b.attempts - b.correct * a.attempts
    IN  10 * (IF d < 0 THEN -d ELSE d) >= a.attempts * b.attempts

AccuracyLess(a, b) == a.correct * b.attempts < b.correct * a.attempts

\* a has to come before b: lower accuracy, or within the 0.1 band more attempts
MustPrecede(a, b) ==
    IF AccuracyApart(a, b) THEN AccuracyLess(a, b) ELSE a.attempts > b.attempts

\* the same with a difference of exactly 0.1 counted as within the band
AccuracyApart_ClosedBand(a, b) ==
    LET d == a.correct * b.attempts - b.correct * a.attempts
    IN  10 * (IF d < 0 THEN -d ELSE d) > a.attempts * b.attempts

MustPrecede_ClosedBand(a, b) ==
    IF AccuracyApart_ClosedBand(a, b) THEN AccuracyLess(a, b)
    ELSE a.attempts > b.attempts

WeakRuleSet ==
    {r \in DOMAIN progress.rulesMastery :
        LET m == progress.rulesMastery[r]
        IN  accuracyBelow(m, 7, 10) /\ m.attempts >= 2}

IsGetWeakRules == request # Null /\ request.op = "getWeakRules"

\* C13: getWeakRules(limit) returns min(limit, number of weak rules) distinct
\* weak rules (accuracy < 0.7, attempts >= 2), no rule placed after one it has
\* to precede (lower accuracy first; accuracies less than 0.1 apart: more
\* attempts first), and no omitted weak rule has to precede a returned one.
\* A difference of exactly 0.1 orders by accuracy, as in the scenario 3/10
\* against 4/10.
C13_WeakRulesOrder ==
    IsGetWeakRules =>
        LET m == progress.rulesMastery
            n == Len(response)
        IN  /\ n = Min(request.limit, Cardinality(WeakRuleSet))
            /\ \A i \in 1..n : response[i] \in WeakRuleSet
            /\ \A i, j \in 1..n : response[i] = response[j] => i = j
            /\ \A i, j \in 1..n : i < j => ~MustPrecede(m[response[j]], m[response[i]])
            /\ \A i \in 1..n : \A w \in WeakRuleSet :
                  (\A j \in 1..n : response[j] # w) =>
                      ~MustPrecede(m[w], m[response[i]])

\* the same statement with a difference of exactly 0.1 counted as a tie
C13_WeakRulesOrder_ClosedBand ==
    IsGetWeakRules =>
        LET m == progress.rulesMastery
            n == Len(response)
        IN  /\ n = Min(request.limit, Cardinality(WeakRuleSet))
            /\ \A i \in 1..n : response[i] \in WeakRuleSet
            /\ \A i, j \in 1..n : response[i] = response[j] => i = j
            /\ \A i, j \in 1..n : i < j =>
                  ~MustPrecede_ClosedBand(m[response[j]], m[response[i]])
            /\ \A i \in 1..n : \A w \in WeakRuleSet :
                  (\A j \in 1..n : response[j] # w) =>
                      ~MustPrecede_ClosedBand(m[w], m[response[i]])
---------------------------------------------------------------------------
(* Classification.  detectErrorType is a pure function of its three texts: *)
(* one call per behaviour reaches every result.                            *)

\* original texts: one per detector pattern, the empty text and a plain one
OriginalTexts ==
    {<<>>,
     <<"J", "e", " ", "v", "a", "i", "s", " ", "à", " ", "l", "e", " ", "p",
       "a", "r", "c">>,
     <<"J", "e", " ", "v", "i", "e", "n", "s", " ", "d", "e", " ", "l", "e",
       " ", "p", "a", "r", "c">>,
     <<"J", "e", " ", "p", "a", "r", "l", "e", " ", "à", " ", "l", "e", "s",
       " ", "e", "n", "f", "a", "n", "t", "s">>,
     <<"J", "e", " ", "p", "a", "r", "l", "e", " ", "d", "e", " ", "l", "e",
       "s", " ", "e", "n", "f", "a", "n", "t", "s">>,
     <<"l", "e", " ", "t", "a", "b", "l", "e", " ", "e", "s", "t", " ", "g",
       "r", "a", "n", "d", "e">>,
     <<"e", "l", "l", "e", " ", "e", "s", "t", " ", "v", "e", "n", "u">>,
     <<"l", "a", " ", "b", "e", "a", "u", " ", "m", "a", "i", "s", "o", "n">>,
     <<"u", "n", " ", "p", "e", "t", "i", "t", " ", "m", "a", "i", "s", "o",
       "n">>,
     <<"l", "a", " ", "l", "i", "v", "r", "e">>,
     <<"E", "l", "l", "e", " ", "e", "s", "t", " ", "v", "e", "n", "u", " ",
       "à", " ", "l", "e", " ", "p", "a", "r", "c">>,
     <<"I", "l", " ", "v", "a", " ", "e", "n", " ", "P", "o", "r", "t", "u",
       "g", "a", "l", " ", "à", " ", "l", "e", "u", "r", " ", "d", "e", "m",
       "a", "n", "d", "e">>,
     <<"j", "e", " ", "m", "a", "n", "g", "e", " ", "p", "a", "s">>,
     <<"j", "e", " ", "m", "a", "n", "g", "e", " ", "p", "a", "i", "n">>,
     <<" ", " ", "B", "o", "n", "j", "o", "u", "r", " ">>}

\* their corrections
CorrectedTexts ==
    {<<>>,
     <<"J", "e", " ", "v", "a", "i", "s", " ", "a", "u", " ", "p", "a", "r",
       "c">>,
     <<"J", "e", " ", "v", "i", "e", "n", "s", " ", "d", "u", " ", "p", "a",
       "r", "c">>,
     <<"J", "e", " ", "p", "a", "r", "l", "e", " ", "a", "u", "x", " ", "e",
       "n", "f", "a", "n", "t", "s">>,
     <<"J", "e", " ", "p", "a", "r", "l", "e", " ", "d", "e", "s", " ", "e",
       "n", "f", "a", "n", "t", "s">>,
     <<"l", "a", " ", "t", "a", "b", "l", "e", " ", "e", "s", "t", " ", "g",
       "r", "a", "n", "d", "e">>,
     <<"e", "l", "l", "e", " ", "e", "s", "t", " ", "v", "e", "n", "u", "e">>,
     <<"l", "a", " ", "b", "e", "l", "l", "e", " ", "m", "a", "i", "s", "o",
       "n">>,
     <<"u", "n", "e", " ", "p", "e", "t", "i", "t", "e", " ", "m", "a", "i",
       "s", "o", "n">>,
     <<"l", "e", " ", "l", "i", "v", "r", "e">>,
     <<"E", "l", "l", "e", " ", "e", "s", "t", " ", "v", "e", "n", "u", "e",
       " ", "a", "u", " ", "p", "a", "r", "c">>,
     <<"I", "l", " ", "v", "a", " ", "a", "u", " ", "P", "o", "r", "t", "u",
       "g", "a", "l", " ", "à", " ", "l", "e", "u", "r", " ", "d", "e", "m",
       "a", "n", "d", "e">>,
     <<"j", "e", " ", "n", "e", " ", "m", "a", "n", "g", "e", " ", "p", "a",
       "s">>,
     <<"j", "e", " ", "m", "a", "n", "g", "e", " ", "d", "u", " ", "p", "a",
       "i", "n">>,
     <<"B", "o", "n", "j", "o", "u", "r">>}

\* descriptions: none, and the keywords of every detector
Descriptions ==
    {<<>>,
     <<"C", "o", "n", "t", "r", "a", "c", "t", "i", "o", "n", " ", "r", "e",
       "q", "u", "i", "r", "e", "d">>,
     <<"W", "r", "o", "n", "g", " ", "g", "e", "n", "d", "e", "r">>,
     <<"V", "e", "r", "b", " ", "c", "o", "n", "j", "u", "g", "a", "t", "i",
       "o", "n">>,
     <<"P", "a", "s", "t", " ", "t", "e", "n", "s", "e">>,
     <<"A", "d", "j", "e", "c", "t", "i", "v", "e", " ", "a", "g", "r", "e",
       "e", "m", "e", "n", "t">>,
     <<"W", "r", "o", "n", "g", " ", "p", "r", "e", "p", "o", "s", "i", "t",
       "i", "o", "n">>,
     <<"N", "e", "g", "a", "t", "i", "o", "n", " ", "m", "i", "s", "s", "i",
       "n", "g">>,
     <<"A", "r", "t", "i", "c", "l", "e", " ", "p", "a", "r", "t", "i", "t",
       "i", "f">>,
     <<"W", "r", "o", "n", "g", " ", "p", "r", "o", "n", "o", "u", "n">>,
     <<"U", "s", "e", " ", "a", "u", " ", "w", "i", "t", "h", " ", "m", "a",
       "s", "c", "u", "l", "i", "n", "e", " ", "c", "o", "u", "n", "t", "r",
       "i", "e", "s">>,
     <<"N", "e", "g", "a", "t", "i", "v", "e", " ", "p", "a", "r", "t", "i",
       "t", "i", "v", "e">>}

callDetectErrorType(original, corrected, errorDescription) ==
    /\ request' = [op |-> "detectErrorType", original |-> original,
                   corrected |-> corrected, errorDescription |-> errorDescription]
    /\ response' = detectErrorType(original, corrected, errorDescription)
    /\ UNCHANGED <<localStorage, now, dstShift, calls, practiced, monotone,
                   sessions, serial, tasks, trace>>

NextClassify ==
    \E original \in OriginalTexts, corrected \in CorrectedTexts,
       errorDescription \in Descriptions :
        /\ request = Null
        /\ callDetectErrorType(original, corrected, errorDescription)

SpecClassify == Init /\ [][NextClassify]_vars

\* a detectErrorType call on two non-empty texts has returned
IsDetectErrorType ==
    /\ request # Null
    /\ request.op = "detectErrorType"
    /\ request.original # <<>>
    /\ request.corrected # <<>>

\* what the eight detectors report for the texts of the call
Detections ==
    detections(trim(toLowerCase(request.original)),
               trim(toLowerCase(request.corrected)),
               toLowerCase(request.errorDescription))

\* the first of the results that reports the highest confidence
Leader(results) ==
    LET highest ==
            CHOOSE c \in {results[k].confidence : k \in 1..Len(results)} :
                \A k \in 1..Len(results) : results[k].confidence <= c
    IN  CHOOSE k \in 1..Len(results) :
            /\ results[k].confidence = highest
            /\ \A j \in 1..(k - 1) : results[j].confidence < highest

(* C16: detectErrorType returns the result of the detector with the highest
   confidence among the eight detectors in declaration order; of several
   detectors with the same highest confidence the earliest-declared one wins;
   when every detector reports confidence 0 the result is the no-match result
   with confidence 0 and no rule. *)
C16_HighestConfidenceWins ==
    IsDetectErrorType =>
        LET results == Detections
        IN  IF results[Leader(results)].confidence = 0
            THEN /\ DOMAIN response = DOMAIN UnknownMatch
                 /\ response = UnknownMatch
            ELSE response = results[Leader(results)]

\* two detectors tie at the highest confidence and the call has returned the
\* result of the earlier one
C16_Witness ==
    /\ IsDetectErrorType
    /\ LET results == Detections
           highest == results[Leader(results)].confidence
       IN  /\ highest > 0
           /\ \E j, k \in 1..Len(results) :
                  /\ j < k
                  /\ results[j].confidence = highest
                  /\ results[k].confidence = highest
                  /\ response = results[j]

\* every detector reports 0 and the call has returned the no-match result
C16_NoMatchWitness ==
    /\ IsDetectErrorType
    /\ LET results == Detections
       IN  results[Leader(results)].confidence = 0
    /\ response.confidence = 0

(* C17: for every structurally matched contraction pair (the original holds
   "à", white space and the word "le"; the correction holds the word "au"; any
   remainder, any description, any letter case) detectErrorType returns
   contraction-au with confidence 0.95 (>= 0.85), and the result of no other
   detector displaces it. *)
C17_ContractionAu ==
    (/\ IsDetectErrorType
     /\ testPair(toLowerCase(request.original), <<"à">>, <<"l", "e">>)
     /\ testWord(toLowerCase(request.corrected), <<"a", "u">>))
    => /\ response.confidence = 95
       /\ response.confidence >= 85
       /\ response.type = "contraction-au"
       /\ response.rule = frenchGrammarRules["contraction-au"]

\* a matched pair on which other detectors report too (the verb detector 0.9,
\* the adjective detector 0.85) has been classified
C17_Witness ==
    /\ IsDetectErrorType
    /\ testPair(toLowerCase(request.original), <<"à">>, <<"l", "e">>)
    /\ testWord(toLowerCase(request.corrected), <<"a", "u">>)
    /\ LET results == Detections
       IN  /\ results[3].confidence = 90
           /\ results[4].confidence = 85
    /\ response.type = "contraction-au"

\* the scenario: detectErrorType("Je vais à le parc", "Je vais au parc", "")
C17_ScenarioWitness ==
    /\ IsDetectErrorType
    /\ request.original = <<"J", "e", " ", "v", "a", "i", "s", " ", "à", " ",
                            "l", "e", " ", "p", "a", "r", "c">>
    /\ request.corrected = <<"J", "e", " ", "v", "a", "i", "s", " ", "a", "u",
                             " ", "p", "a", "r", "c">>
    /\ request.errorDescription = <<>>
    /\ response.type = "contraction-au"
    /\ response.confidence >= 90

\* a detector result that rests on the pair of texts
Structural(result) ==
    result.confidence > 0 /\ "source" \notin DOMAIN result.details

\* a detector result that rests on a keyword of the description only
DescriptionOnly(result) ==
    result.confidence > 0 /\ "source" \in DOMAIN result.details

(* C18: description-keyword evidence always carries lower confidence than
   structural evidence, so whenever at least one detector finds structural
   evidence for an input, the result detectErrorType returns is a structural
   match and never a description-only match. *)
C18_StructuralEvidenceFirst ==
    IsDetectErrorType =>
        LET results == Detections
        IN  (\E k \in 1..Len(results) : Structural(results[k]))
                => Structural(response)

(* C18, first half: every description-only detection has confidence strictly
   below every structural detection (compared within one call). *)
C18_DescriptionBelowStructure ==
    IsDetectErrorType =>
        LET results == Detections
        IN  \A j, k \in 1..Len(results) :
                (DescriptionOnly(results[j]) /\ Structural(results[k]))
                    => results[j].confidence < results[k].confidence

(* C19: every classification with confidence > 0 names a rule of the catalog:
   the returned type is a key of frenchGrammarRules and the returned rule is
   that entry, never undefined. *)
C19_NamesCatalogRule ==
    (/\ request # Null
     /\ request.op = "detectErrorType"
     /\ response.confidence > 0)
    => /\ response.type \in DOMAIN frenchGrammarRules
       /\ response.rule # Undefined
       /\ response.rule = frenchGrammarRules[response.type]

---------------------------------------------------------------------------
(* From a reported error to its quiz: analyzeErrors enriches the error,    *)
(* then the panel asks generateProgressiveQuiz for the questions of the    *)
(* rule's mastery level; generateQuizFromError is the variant that mixes   *)
(* the generators.                                                         *)

\* errors as the correction source reports them: one for every
\* classification detectErrorType produces, two it cannot classify, and one
\* whose text is a phrase the catalog lists as correct
ErrorInputs ==
    {[example |->
          <<"J", "e", " ", "v", "a", "i", "s", " ", "à", " ", "l", "e", " ",
            "p", "a", "r", "c">>,
      suggestion |->
          <<"J", "e", " ", "v", "a", "i", "s", " ", "a", "u", " ", "p", "a",
            "r", "c">>,
      issue |->
          <<"C", "o", "n", "t", "r", "a", "c", "t", "i", "o", "n", " ", "r",
            "e", "q", "u", "i", "r", "e", "d">>],
     [example |->
          <<"J", "e", " ", "v", "i", "e", "n", "s", " ", "d", "e", " ", "l",
            "e", " ", "p", "a", "r", "c">>,
      suggestion |->
          <<"J", "e", " ", "v", "i", "e", "n", "s", " ", "d", "u", " ", "p",
            "a", "r", "c">>,
      issue |->
          <<>>],
     [example |->
          <<"J", "e", " ", "p", "a", "r", "l", "e", " ", "à", " ", "l", "e",
            "s", " ", "e", "n", "f", "a", "n", "t", "s">>,
      suggestion |->
          <<"J", "e", " ", "p", "a", "r", "l", "e", " ", "a", "u", "x", " ",
            "e", "n", "f", "a", "n", "t", "s">>,
      issue |->
          <<>>],
     [example |->
          <<"J", "e", " ", "p", "a", "r", "l", "e", " ", "d", "e", " ", "l",
            "e", "s", " ", "e", "n", "f", "a", "n", "t", "s">>,
      suggestion |->
          <<"J", "e", " ", "p", "a", "r", "l", "e", " ", "d", "e", "s", " ",
            "e", "n", "f", "a", "n", "t", "s">>,
      issue |->
          <<>>],
     [example |->
          <<"l", "e", " ", "t", "a", "b", "l", "e", " ", "e", "s", "t", " ",
            "g", "r", "a", "n", "d", "e">>,
      suggestion |->
          <<"l", "a", " ", "t", "a", "b", "l", "e", " ", "e", "s", "t", " ",
            "g", "r", "a", "n", "d", "e">>,
      issue |->
          <<"W", "r", "o", "n", "g", " ", "g", "e", "n", "d", "e", "r">>],
     [example |->
          <<"l", "a", " ", "l", "i", "v", "r", "e">>,
      suggestion |->
          <<"l", "e", " ", "l", "i", "v", "r", "e">>,
      issue |->
          <<>>],
     [example |->
          <<"E", "l", "l", "e", " ", "e", "s", "t", " ", "v", "e", "n", "u">>,
      suggestion |->
          <<"E", "l", "l", "e", " ", "e", "s", "t", " ", "v", "e", "n", "u",
            "e">>,
      issue |->
          <<>>],
     [example |->
          <<"J", "e", " ", "p", "a", "r", "l", "e", "s", " ", "f", "r", "a",
            "n", "ç", "a", "i", "s">>,
      suggestion |->
          <<"J", "e", " ", "p", "a", "r", "l", "e", " ", "f", "r", "a", "n",
            "ç", "a", "i", "s">>,
      issue |->
          <<"V", "e", "r", "b", " ", "c", "o", "n", "j", "u", "g", "a", "t",
            "i", "o", "n">>],
     [example |->
          <<"l", "a", " ", "b", "e", "a", "u", " ", "m", "a", "i", "s", "o",
            "n">>,
      suggestion |->
          <<"l", "a", " ", "b", "e", "l", "l", "e", " ", "m", "a", "i", "s",
            "o", "n">>,
      issue |->
          <<>>],
     [example |->
          <<"I", "l", " ", "v", "a", " ", "e", "n", " ", "P", "o", "r", "t",
            "u", "g", "a", "l">>,
      suggestion |->
          <<"I", "l", " ", "v", "a", " ", "a", "u", " ", "P", "o", "r", "t",
            "u", "g", "a", "l">>,
      issue |->
          <<>>],
     [example |->
          <<"j", "e", " ", "m", "a", "n", "g", "e", " ", "p", "a", "s">>,
      suggestion |->
          <<"j", "e", " ", "n", "e", " ", "m", "a", "n", "g", "e", " ", "p",
            "a", "s">>,
      issue |->
          <<>>],
     [example |->
          <<"j", "e", " ", "m", "a", "n", "g", "e", " ", "p", "a", "i", "n">>,
      suggestion |->
          <<"j", "e", " ", "m", "a", "n", "g", "e", " ", "d", "u", " ", "p",
            "a", "i", "n">>,
      issue |->
          <<>>],
     [example |->
          <<"J", "e", " ", "v", "o", "i", "s", " ", "l", "e">>,
      suggestion |->
          <<"J", "e", " ", "l", "e", " ", "v", "o", "i", "s">>,
      issue |->
          <<"W", "r", "o", "n", "g", " ", "p", "r", "o", "n", "o", "u", "n">>],
     [example |->
          <<"B", "o", "n", "j", "o", "u", "r">>,
      suggestion |->
          <<"B", "o", "n", "j", "o", "u", "r">>,
      issue |->
          <<>>],
     [example |->
          <<>>,
      suggestion |->
          <<"B", "o", "n", "j", "o", "u", "r">>,
      issue |->
          <<>>],
     [example |->
          <<"l", "e", " ", "c", "h", "a", "t">>,
      suggestion |->
          <<"l", "e", " ", "c", "h", "i", "e", "n">>,
      issue |->
          <<"W", "r", "o", "n", "g", " ", "n", "o", "u", "n", " ", "a", "f", "t", "e", "r", " ", "t", "h", "e", " ", "a", "r", "t", "i", "c", "l", "e">>]}

\* numbers of questions 0..MaxQuestions asked of generateQuizFromError
MaxQuestions == 5

\* what Math.random can return during one call: the order the shuffle gives
\* the four generators, the draws for the practice, the example and the rule
\* of the default quiz
Randoms ==
    [order : Permutations(1..4), practice : 0..2, example : 0..3, basic : 0..2]

callAnalyzeErrors(error) ==
    /\ request = Null
    /\ request' = [op |-> "analyzeErrors", error |-> error]
    /\ response' = analyzeError(error)
    /\ UNCHANGED <<localStorage, now, dstShift, calls, practiced, monotone,
                   sessions, serial, tasks, trace>>

callGenerateProgressiveQuiz(userLevel, random) ==
    /\ request # Null
    /\ request.op = "analyzeErrors"
    /\ request' = [op |-> "generateProgressiveQuiz", error |-> response,
                   userLevel |-> userLevel]
    /\ response' = generateProgressiveQuiz(response, userLevel, random)
    /\ UNCHANGED <<localStorage, now, dstShift, calls, practiced, monotone,
                   sessions, serial, tasks, trace>>

callGenerateQuizFromError(numQuestions, random) ==
    /\ request # Null
    /\ request.op = "analyzeErrors"
    /\ request' = [op |-> "generateQuizFromError", error |-> response,
                   numQuestions |-> numQuestions]
    /\ response' = generateQuizFromError(response, numQuestions, random)
    /\ UNCHANGED <<localStorage, now, dstShift, calls, practiced, monotone,
                   sessions, serial, tasks, trace>>

NextQuiz ==
    \/ \E error \in ErrorInputs : callAnalyzeErrors(error)
    \* mastery levels 1..4, and a value outside them (the default branch)
    \/ \E userLevel \in 1..5, random \in Randoms :
           callGenerateProgressiveQuiz(userLevel, random)
    \/ \E numQuestions \in 0..MaxQuestions, random \in Randoms :
           callGenerateQuizFromError(numQuestions, random)

SpecQuiz == Init /\ [][NextQuiz]_vars

\* a quiz has been asked for: at a mastery level the tracker reports, or with
\* a number of questions
IsGeneration ==
    /\ request # Null
    /\ \/ request.op = "generateProgressiveQuiz" /\ request.userLevel \in 1..4
       \/ request.op = "generateQuizFromError"

\* a question with the fields every consumer reads
ValidQuestion(question) ==
    /\ {"type", "difficulty", "question", "correctAnswer", "explanation",
        "points"} \subseteq DOMAIN question
    /\ question.correctAnswer # UndefinedText
    /\ question.points > 0
    /\ "options" \in DOMAIN question => Len(question.options.entries) > 0

(* C20: generation never raises: for every classification analyzeErrors can
   produce (every catalog rule it can return, and the no-rule result) and
   every mastery level 1..4, generateProgressiveQuiz returns a (possibly
   empty) list of valid questions without throwing; likewise
   generateQuizFromError for every number of questions >= 0. *)
C20_GenerationNeverRaises ==
    IsGeneration =>
        /\ ~response.threw
        /\ \A k \in 1..Len(response.value) : ValidQuestion(response.value[k])

\* a generator call has returned a quiz (at any level, the default branch of
\* generateProgressiveQuiz included)
IsQuiz ==
    /\ request # Null
    /\ request.op \in {"generateProgressiveQuiz", "generateQuizFromError"}
    /\ ~response.threw

\* the places of an options list that hold the answer
Places(options, answer) == {i \in 1..Len(options) : options[i] = answer}

\* the options of a question name its answer exactly once and repeat nothing
WellFormedOptions(question) ==
    LET options == question.options.entries
    IN  /\ Cardinality(Places(options, question.correctAnswer)) = 1
        /\ \A i, j \in 1..Len(options) : options[i] = options[j] => i = j

(* C21: every question a generator emits that has an options list names its
   correctAnswer exactly once among the options, and the options hold no
   duplicate entries. *)
C21_OptionsNameAnswerOnce ==
    IsQuiz =>
        \A k \in 1..Len(response.value) :
            "options" \in DOMAIN response.value[k]
                => WellFormedOptions(response.value[k])

\* generateProgressiveQuiz has returned the questions of a mastery level for
\* a classification that has a rule
IsGated ==
    /\ request # Null
    /\ request.op = "generateProgressiveQuiz"
    /\ request.userLevel \in 1..4
    /\ ~noGrammarRule(request.error)
    /\ ~response.threw

\* the generator a question comes from, by the fields only it writes
GeneratorOf(question) ==
    IF question.type = "error_identification" THEN "identification"
    ELSE IF question.type = "rule_explanation" THEN "explanation"
    ELSE IF "hint" \in DOMAIN question THEN "application"
    ELSE "construction"

\* the generators of a level, in the order their questions are emitted
Gate(userLevel) ==
    CASE userLevel = 1 -> <<"identification">>
      [] userLevel = 2 -> <<"identification", "explanation">>
      [] userLevel = 3 -> <<"explanation", "application">>
      [] userLevel = 4 -> <<"application", "construction">>

(* C22: generateProgressiveQuiz(classification, L) emits questions only from
   the generators of level L, in their order and at most one per generator
   (1: identification; 2: identification, explanation; 3: explanation,
   application; 4: application, construction). *)
C22_LevelGatesGenerators ==
    IsGated =>
        LET questions == response.value
            gate == Gate(request.userLevel)
            place(k) == CHOOSE i \in 1..Len(gate) : gate[i] = GeneratorOf(questions[k])
        IN  /\ \A k \in 1..Len(questions) :
                   \E i \in 1..Len(gate) : gate[i] = GeneratorOf(questions[k])
            /\ \A k, l \in 1..Len(questions) : k < l => place(k) < place(l)

\* level 4 has emitted an application question, then a construction question
C22_Witness ==
    /\ IsGated
    /\ request.userLevel = 4
    /\ Len(response.value) = 2
    /\ GeneratorOf(response.value[1]) = "application"
    /\ GeneratorOf(response.value[2]) = "construction"

\* level 2 has emitted an identification question, then an explanation
C22_LevelTwoWitness ==
    /\ IsGated
    /\ request.userLevel = 2
    /\ Len(response.value) = 2
    /\ GeneratorOf(response.value[1]) = "identification"
    /\ GeneratorOf(response.value[2]) = "explanation"

\* a quiz has been asked for a classification without a rule
IsRuleless ==
    /\ request # Null
    /\ request.op \in {"generateProgressiveQuiz", "generateQuizFromError"}
    /\ noGrammarRule(request.error)

\* the single well-formed question of the default quiz
WellFormedDefault(question) ==
    /\ "options" \in DOMAIN question
    /\ Len(question.options.entries) > 0
    /\ Places(question.options.entries, question.correctAnswer) # {}
    /\ question.correctAnswer \notin {UndefinedText, <<>>}
    /\ question.explanation \notin {UndefinedText, <<>>}
    /\ question.points = 10

(* C23: when the classification has no rule, generateProgressiveQuiz (at
   every level) and generateQuizFromError return the default quiz: never an
   empty list, but a single question with a non-empty options list that
   contains its correctAnswer, an explanation and points = 10. *)
C23_DefaultQuizWithoutRule ==
    IsRuleless =>
        /\ ~response.threw
        /\ Len(response.value) = 1
        /\ WellFormedDefault(response.value[1])

\* the default quiz returned by generateProgressiveQuiz for an error that
\* detectErrorType could not classify
C23_Witness ==
    /\ IsRuleless
    /\ request.op = "generateProgressiveQuiz"
    /\ request.error.detectedType = "unknown"
    /\ ~response.threw
    /\ Len(response.value) = 1

\* the default quiz returned by generateQuizFromError asked for no question
C23_NoQuestionWitness ==
    /\ IsRuleless
    /\ request.op = "generateQuizFromError"
    /\ request.numQuestions = 0
    /\ ~response.threw
    /\ Len(response.value) = 1

---------------------------------------------------------------------------
(* Validation of an answer: the panel hands the question on display and    *)
(* the text the learner typed to validateAnswer.                           *)

\* questions on display: their answer, explanation and points
Questions ==
    {[correctAnswer |-> <<"a", "u", " ", "p", "a", "r", "c">>,
      explanation |-> <<"U", "s", "e", " ", "a", "u", ".">>,
      points |-> 10],
     [correctAnswer |-> <<"f", "e", "m", "i", "n", "i", "n", "e", " ", "(", "l", "a", " ", "t", "a", "b", "l", "e", ")">>,
      explanation |-> <<"E", "n", "d", "s", " ", "i", "n", " ", "-", "e", ".">>,
      points |-> 15],
     [correctAnswer |-> <<"J", "e", " ", "n", "e", " ", "p", "a", "r", "l", "e", " ", "p", "a", "s", " ", "f", "r", "a", "n", "ç", "a", "i", "s">>,
      explanation |-> <<"n", "e", " ", ".", ".", ".", " ", "p", "a", "s">>,
      points |-> 10],
     [correctAnswer |-> <<"l", "e">>,
      explanation |-> <<"M", "a", "s", "c", "u", "l", "i", "n", "e", ".">>,
      points |-> 15]}

\* texts a learner submits: right and wrong answers in several spellings,
\* the empty text and texts of blanks or marks only
Answers ==
    {<<>>,
     <<"a", "u", " ", "p", "a", "r", "c">>,
     <<"A", "u", " ", "P", "a", "r", "c", "!">>,
     <<" ", "a", "u", " ", "p", "a", "r", "c", " ">>,
     <<"A", "U", " ", "P", "A", "R", "C", ".">>,
     <<"a", "u", " ", "p", "a", "r", "c", " ", "!">>,
     <<"à", " ", "l", "e", " ", "p", "a", "r", "c">>,
     <<"a", "u", " ", " ", "p", "a", "r", "c">>,
     <<"A", "u", " ", "p", "a", "r", "c", " ", "!", " ">>,
     <<"a", "u", ",", " ", "p", "a", "r", "c", "?">>,
     <<" ", " ">>,
     <<"!">>,
     <<"F", "e", "m", "i", "n", "i", "n", "e", " ", "(", "l", "a", " ", "t", "a", "b", "l", "e", ")">>,
     <<"f", "e", "m", "i", "n", "i", "n", "e", " ", " ", "l", "a", " ", "t", "a", "b", "l", "e">>,
     <<"L", "a", " ", "t", "a", "b", "l", "e">>,
     <<"j", "e", " ", "n", "e", " ", "p", "a", "r", "l", "e", " ", "p", "a", "s", " ", "f", "r", "a", "n", "ç", "a", "i", "s", ".">>,
     <<"J", "e", " ", "n", "e", " ", "p", "a", "r", "l", "e", " ", "p", "a", "s", " ", "f", "r", "a", "n", "ç", "a", "i", "s", " ", "!">>,
     <<"j", "e", " ", "p", "a", "r", "l", "e", " ", "p", "a", "s", " ", "f", "r", "a", "n", "ç", "a", "i", "s">>,
     <<"L", "e">>,
     <<" ", "l", "e", "	">>,
     <<"l", "e", " ", ";">>,
     <<"l", "a">>,
     <<"L", "E", ".">>,
     <<"l", "e", " ", "l", "e">>,
     <<"l", "e", "s">>,
     <<".", " ", "l", "e">>}

callValidateAnswer(question, userAnswer) ==
    /\ request = Null
    /\ request' = [op |-> "validateAnswer", question |-> question,
                   userAnswer |-> userAnswer]
    /\ response' = validateAnswer(question, userAnswer)
    /\ UNCHANGED <<localStorage, now, dstShift, calls, practiced, monotone,
                   sessions, serial, tasks, trace>>

NextValidate ==
    \E question \in Questions, userAnswer \in Answers :
        callValidateAnswer(question, userAnswer)

SpecValidate == Init /\ [][NextValidate]_vars

\* validateAnswer has judged a non-empty answer
IsValidated ==
    /\ request # Null
    /\ request.op = "validateAnswer"
    /\ request.userAnswer # <<>>

\* a text without what the comparison is to ignore: letter case, the marks
\* . , ! ? ; and leading and trailing whitespace
Canonical(text) ==
    LET unmarked(c) == c \notin {".", ",", "!", "?", ";"}
    IN  trim(SelectSeq(toLowerCase(text), unmarked))

\* the two texts differ only in letter case, leading or trailing whitespace
\* and marks
SameAnswer(a, b) == Canonical(a) = Canonical(b)

(* C24: validateAnswer judges correct every non-empty answer that differs
   from correctAnswer only in letter case, leading or trailing whitespace or
   the marks . , ! ? ; and no other answer; the result carries
   points = question.points when correct and 0 otherwise, and a mismatch is
   an ordinary result with correct = FALSE. *)
C24_AnswerUpToCaseBlanksMarks ==
    IsValidated =>
        /\ DOMAIN response = {"correct", "feedback", "points", "correctAnswer"}
        /\ response.correct
               <=> SameAnswer(request.userAnswer, request.question.correctAnswer)
        /\ response.points = IF response.correct THEN request.question.points ELSE 0

\* the same with the answers compared as validateAnswer normalizes them:
\* whitespace counts as leading or trailing only where the text begins or
\* ends with it
C24_AnswerUpToNormalization ==
    IsValidated =>
        LET unmarked(c) == c \notin {".", ",", "!", "?", ";"}
            strict(text) == SelectSeq(trim(toLowerCase(text)), unmarked)
        IN  /\ DOMAIN response = {"correct", "feedback", "points", "correctAnswer"}
            /\ response.correct
                   <=> strict(request.userAnswer) = strict(request.question.correctAnswer)
            /\ response.points = IF response.correct THEN request.question.points ELSE 0

\* the scenario: "Au Parc!" for "au parc" is correct
C24_ScenarioWitness ==
    /\ IsValidated
    /\ request.userAnswer = <<"A", "u", " ", "P", "a", "r", "c", "!">>
    /\ request.question.correctAnswer = <<"a", "u", " ", "p", "a", "r", "c">>
    /\ response.correct
    /\ response.points = 10

---------------------------------------------------------------------------
(* Retry with backoff (api/aiService.js): retryable(fn, attempts) awaits   *)
(* fn() and, when it rejects, sleeps and calls it again.  The task is the  *)
(* loop's position and locals; the trace lists the calls of fn with their  *)
(* outcome and the timers set, in order.                                   *)

\* the largest number of retries asked for
MaxAttempts == 3

\* defaultConfig.maxRetries
maxRetries == 2

\* values of config.retryDelayMs: the default and another
RetryDelays == {500, 200}

\* what fn resolves with, what it rejects with
Values == {"content-1", "content-2"}
Errors == {"OPENAI_ERROR", "TypeError"}

\* a linear delay
backoff_Linear(retryDelayMs, i) == retryDelayMs * (i + 1)

\* config.retryDelayMs * Math.pow(2, i)
backoff(retryDelayMs, i) == retryDelayMs * 2^i

\* retryable(fn, attempts) up to its first await: i = 0 and fn is called
callRetryable(attempts, retryDelayMs) ==
    /\ tasks = Null
    /\ tasks' = [pc |-> "fn", attempts |-> attempts,
                 retryDelayMs |-> retryDelayMs, i |-> 0, lastErr |-> Null,
                 result |-> Null]
    /\ trace' = <<[event |-> "fn", outcome |-> "pending"]>>
    /\ UNCHANGED <<localStorage, now, dstShift, calls, practiced, monotone,
                   sessions, serial, request, response>>

\* the promise of fn() resolves: return await fn()
fnResolves(value) ==
    /\ tasks # Null
    /\ tasks.pc = "fn"
    /\ tasks' = [tasks EXCEPT !.pc = "returned", !.result = value]
    /\ trace' = [trace EXCEPT ![Len(trace)].outcome = value]
    /\ UNCHANGED <<localStorage, now, dstShift, calls, practiced, monotone,
                   sessions, serial, request, response>>

\* the promise of fn() rejects: the catch block, and when it sets no timer
\* the end of the loop and throw lastErr
fnRejects(err) ==
    /\ tasks # Null
    /\ tasks.pc = "fn"
    /\ IF tasks.i < tasks.attempts
       THEN /\ tasks' = [tasks EXCEPT !.pc = "timer", !.lastErr = err]
            /\ trace' = Append([trace EXCEPT ![Len(trace)].outcome = err],
                               [event |-> "timer",
                                ms |-> backoff(tasks.retryDelayMs, tasks.i)])
       ELSE /\ tasks' = [tasks EXCEPT !.pc = "thrown", !.lastErr = err]
            /\ trace' = [trace EXCEPT ![Len(trace)].outcome = err]
    /\ UNCHANGED <<localStorage, now, dstShift, calls, practiced, monotone,
                   sessions, serial, request, response>>

\* the timer fires: i++ and the next round of the loop calls fn
timerFires ==
    /\ tasks # Null
    /\ tasks.pc = "timer"
    /\ tasks' = [tasks EXCEPT !.pc = "fn", !.i = @ + 1]
    /\ trace' = Append(trace, [event |-> "fn", outcome |-> "pending"])
    /\ UNCHANGED <<localStorage, now, dstShift, calls, practiced, monotone,
                   sessions, serial, request, response>>

NextRetry ==
    \/ \E attempts \in 0..MaxAttempts, retryDelayMs \in RetryDelays :
           callRetryable(attempts, retryDelayMs)
    \/ \E value \in Values : fnResolves(value)
    \/ \E err \in Errors : fnRejects(err)
    \/ timerFires

SpecRetry == Init /\ [][NextRetry]_vars

\* the calls of fn made so far, the timers set so far
Invocations == {k \in 1..Len(trace) : trace[k].event = "fn"}
Timers == {k \in 1..Len(trace) : trace[k].event = "timer"}

(* C25: retryable(fn, attempts) calls fn at most attempts + 1 times; it
   returns the first value fn resolves with and does not call fn again; after
   the i-th failed call (i from 0) it waits retryDelayMs * 2^i before the
   next call and it does not wait after the last one; it throws only after
   attempts + 1 failed calls, and then the error of the last call. *)
C25_RetryWithBackoff ==
    (tasks # Null /\ trace # Null) =>
        LET failed == {k \in Invocations : trace[k].outcome \in Errors}
            last == trace[Len(trace)]
        IN  \* calls and timers alternate: a timer follows a failed call and
            \* the timer after the i-th call lasts retryDelayMs * 2^i
            /\ \A k \in 1..Len(trace) :
                   IF k % 2 = 1 THEN k \in Invocations
                   ELSE /\ k \in Timers
                        /\ (k - 1) \in failed
                        /\ trace[k].ms = tasks.retryDelayMs * 2^((k \div 2) - 1)
            /\ Cardinality(Invocations) <= tasks.attempts + 1
            /\ tasks.pc = "returned" =>
                   /\ last.event = "fn"
                   /\ last.outcome = tasks.result
                   /\ failed = Invocations \ {Len(trace)}
            /\ tasks.pc = "thrown" =>
                   /\ last.event = "fn"
                   /\ last.outcome = tasks.lastErr
                   /\ failed = Invocations
                   /\ Cardinality(Invocations) = tasks.attempts + 1

\* with maxRetries = 2 the third call has failed and the error is thrown,
\* after waits of 500 and 1000 ms
C25_Witness ==
    /\ tasks # Null
    /\ tasks.pc = "thrown"
    /\ tasks.attempts = maxRetries
    /\ Cardinality(Invocations) = maxRetries + 1
    /\ Len(trace) = 5
    /\ trace[2].ms = 500
    /\ trace[4].ms = 1000

\* the second call has succeeded after one wait
C25_SuccessWitness ==
    /\ tasks # Null
    /\ tasks.pc = "returned"
    /\ Cardinality(Invocations) = 2
    /\ Cardinality(Timers) = 1

---------------------------------------------------------------------------
(* The daily request limit (api/costTracker.js, api/aiService.js).  The     *)
(* usage record is kept under STORAGE_KEY; of its fields the model keeps   *)
(* lastReset and totalRequests (tokens, cost and history are sums and a    *)
(* log that no limit reads).  One call of the service is in progress at a  *)
(* time; the trace counts, per calendar day, the requests handed to fetch. *)

STORAGE_KEY == "aiLanguageCoach_usage"

\* parseInt(VITE_MAX_REQUESTS_PER_DAY) || 100, set low
MaxRequestsPerDay == 2

\* calls of the service explored
MaxApiCalls == 3

\* parseInt(VITE_MAX_TOKENS_PER_REQUEST) || 1000
maxTokensPerRequest == 1000

\* the exported calls that reach the provider; all but testConnection go
\* through runProvider, that is retryable(..., config.maxRetries)
Apis == {"analyzeText", "correctText", "getSuggestions", "testConnection"}

\* estimateTokens(prompt) of a prompt within the limit and of one beyond it
TokenEstimates == {10, 1001}

\* initializeUsageData(): the record it builds (and saves)
initializeUsageData == [lastReset |-> toISOString(now), totalRequests |-> 0]

\* getUsageData(): the stored record, or a fresh one when nothing readable
\* is stored or the stored one was begun on another calendar day
getUsageData ==
    LET data == getItem(STORAGE_KEY)
        parsed == JSONparse(data).value
    IN  IF ~Truthy(data) \/ JSONparse(data).threw THEN initializeUsageData
        ELSE IF toDateString(parseDate(parsed.lastReset)) # toDateString(now)
        THEN initializeUsageData
        ELSE parsed

\* localStorage after saveUsageData(data)
saveUsageData(data) ==
    [k \in DOMAIN localStorage \cup {STORAGE_KEY} |->
        IF k = STORAGE_KEY THEN JSONstringify(data) ELSE localStorage[k]]

\* localStorage after trackRequest(request): one more request counted
trackRequest ==
    saveUsageData([getUsageData EXCEPT !.totalRequests = @ + 1])

\* checkLimits(estimatedTokens).allowed; the call leaves the record it read
\* in the store (a fresh one is saved by initializeUsageData)
checkLimits(estimatedTokens) ==
    /\ ~(getUsageData.totalRequests >= MaxRequestsPerDay)
    /\ ~(estimatedTokens > maxTokensPerRequest)

\* the task after a failed try of callOpenAI: testConnection reports it,
\* retryable sets a timer while i < maxRetries, else the call's catch block
\* takes over
failed(task) ==
    IF task.api # "testConnection" /\ task.i < maxRetries
    THEN [task EXCEPT !.pc = "timer"]
    ELSE [task EXCEPT !.pc = "idle"]

\* the catch block of analyzeText counts the failed call; correctText and
\* getSuggestions only fall back to mock data
caught(task) == failed(task).pc = "idle" /\ task.api = "analyzeText"

\* callOpenAI up to its await fetch(...): RATE_LIMIT is thrown before the
\* request is sent, otherwise the request is sent
callOpenAI(task) ==
    IF checkLimits(task.estimatedTokens)
    THEN /\ tasks' = [task EXCEPT !.pc = "fetch"]
         /\ trace' = [trace EXCEPT ![toDateString(now)] = @ + 1]
         /\ localStorage' = saveUsageData(getUsageData)
    ELSE /\ tasks' = failed(task)
         /\ trace' = trace
         /\ localStorage' = IF caught(task) THEN trackRequest
                            ELSE saveUsageData(getUsageData)

\* analyzeText, correctText, getSuggestions (text given, no mock, nothing
\* cached) or testConnection, up to the first await
callApi(api, estimatedTokens) ==
    /\ tasks.pc = "idle"
    /\ tasks.started < MaxApiCalls
    /\ callOpenAI([pc |-> "idle", api |-> api, i |-> 0,
                   estimatedTokens |-> estimatedTokens,
                   started |-> tasks.started + 1])
    /\ UNCHANGED <<now, dstShift, calls, practiced, monotone, sessions,
                   serial, request, response>>

\* fetch resolves: with res.ok the request is tracked and the call returns,
\* otherwise OPENAI_ERROR is thrown
fetchResolves(ok) ==
    /\ tasks.pc = "fetch"
    /\ tasks' = IF ok THEN [tasks EXCEPT !.pc = "idle"] ELSE failed(tasks)
    /\ localStorage' = IF ok \/ caught(tasks) THEN trackRequest ELSE localStorage
    /\ UNCHANGED <<now, dstShift, calls, practiced, monotone, sessions,
                   serial, request, response, trace>>

\* the backoff timer of retryable fires: the next try of callOpenAI
retryFires ==
    /\ tasks.pc = "timer"
    /\ callOpenAI([tasks EXCEPT !.i = @ + 1])
    /\ UNCHANGED <<now, dstShift, calls, practiced, monotone, sessions,
                   serial, request, response>>

InitLimit ==
    /\ localStorage = <<>>
    /\ now = 0
    /\ dstShift = 0
    /\ calls = NoCalls
    /\ practiced = {}
    /\ monotone = TRUE
    /\ sessions = NoSessions
    /\ serial = TRUE
    /\ request = Null
    /\ response = Null
    /\ tasks = [pc |-> "idle", started |-> 0]
    /\ trace = [d \in Days |-> 0]

NextLimit ==
    \/ \E api \in Apis, estimatedTokens \in TokenEstimates :
           /\ api = "testConnection" => estimatedTokens = 10
           /\ callApi(api, estimatedTokens)
    \/ \E ok \in BOOLEAN : fetchResolves(ok)
    \/ retryFires
    \* time passes
    \/ \E t \in Instants : t > now /\ setClock(t)

SpecLimit == InitLimit /\ [][NextLimit]_vars

(* C26: within one calendar day the number of requests sent to the provider
   never exceeds maxRequestsPerDay, whatever calls are made and however the
   provider answers. *)
C26_DailyRequestLimit ==
    \A d \in Days : trace[d] <= MaxRequestsPerDay

\* once the day's count has reached the maximum nothing more is sent
C26_FullCountBlocks ==
    [][getUsageData.totalRequests >= MaxRequestsPerDay => trace' = trace]_vars

\* on a new calendar day the count read is 0 again
C26_CountStartsAgain ==
    (/\ Truthy(getItem(STORAGE_KEY))
     /\ toDateString(parseDate(JSONparse(getItem(STORAGE_KEY)).value.lastReset))
            # toDateString(now))
        => getUsageData.totalRequests = 0

---------------------------------------------------------------------------
(* Account totals against the per-rule records *)

\* the sum of a field over the rule records with the given keys
RECURSIVE SumOfRules(_, _, _)
SumOfRules(rulesMastery, keys, field) ==
    IF keys = {} THEN 0
    ELSE LET key == CHOOSE k \in keys : TRUE
         IN  rulesMastery[key][field]
                 + SumOfRules(rulesMastery, keys \ {key}, field)

\* the totals of the stored record are the sums over its rule records
TotalsAgree(p) ==
    LET sum(field) == SumOfRules(p.rulesMastery, DOMAIN p.rulesMastery, field)
    IN  /\ p.totalQuizzes = sum("attempts")
        /\ p.totalCorrect = sum("correct")
        /\ p.experience = sum("totalPoints")

\* a recordAttempt on rule r leaves the record of every other rule as it was
OthersUntouched(r) ==
    \A q \in Rules \ {r} :
        /\ q \in DOMAIN progress.rulesMastery <=> q \in DOMAIN progress'.rulesMastery
        /\ Before(q) = After(q)

(* C27: in every state reached from a fresh or reset store by recordAttempt
   calls, totalQuizzes is the sum of the rules' attempts, totalCorrect the
   sum of their correct counts and experience the sum of their totalPoints;
   and a recordAttempt on one rule leaves every other rule's record
   unchanged. *)
C27_TotalsAgreeWithRules ==
    /\ []TotalsAgree(progress)
    /\ [][\A r \in Rules : Called(r) => OthersUntouched(r)]_vars

\* both rules practised, each with right and wrong answers
C27_Witness ==
    /\ \A r \in Rules : r \in DOMAIN progress.rulesMastery
    /\ \A r \in Rules : progress.rulesMastery[r].attempts
                              > progress.rulesMastery[r].correct
    /\ progress.experience > 0
    /\ progress.totalQuizzes >= 4

---------------------------------------------------------------------------
(* The value recordAttempt returns against the record it stored *)

\* the points a call on rule r can have been made with: those the log shows
\* for a correct answer, any for a wrong one (the log keeps none)
PointsGiven(r) == IF CalledCorrect(r) THEN {PointsOf(r)} ELSE PointValues

\* what the call on rule r returned: computed, as the return statement does,
\* from the record the call built in memory and the level it had read
Returned(r, points) ==
    recordAttemptResult(progress,
                        recordAttemptData(progress, r, CalledCorrect(r), points, now),
                        CalledCorrect(r), points)

(* C28: the value recordAttempt returns reflects the record it stored:
   levelUp is true exactly when the stored account level is one higher than
   before the call, newLevel is the stored account level, streak the stored
   streak, and pointsEarned is `points` for a correct answer and 0
   otherwise. *)
C28_ResultReflectsStore ==
    [][\A r \in Rules : Called(r) =>
          \A points \in PointsGiven(r) :
              Returned(r, points) =
                  [levelUp |-> progress'.level = progress.level + 1,
                   newLevel |-> progress'.level,
                   pointsEarned |-> IF CalledCorrect(r) THEN points ELSE 0,
                   streak |-> progress'.streak]]_vars

\* a call has raised the account level above 2 and stored it
C28_Witness ==
    /\ progress.level >= 3
    /\ progress.streak >= 1
    /\ \E r \in Rules : calls[r].n > calls[r].ok /\ calls[r].ok > 0

---------------------------------------------------------------------------
(* The two notions of mastery *)

\* the entries of a list
Listed(list) == {list[i] : i \in 1..Len(list)}

(* C29: in every reachable state a rule is listed by getMasteredRules() if
   and only if getRulePerformance(rule).status is 'mastered', and no rule is
   both in getMasteredRules() and in getWeakRules(). *)
C29_MasteryNotionsAgree ==
    \A r \in Rules :
        /\ r \in Listed(getMasteredRules)
               <=> getRulePerformance(r).status = "mastered"
        /\ \A weakRules \in getWeakRules(5) :
               ~(r \in Listed(getMasteredRules) /\ r \in Listed(weakRules))

\* the second half alone: no rule is both mastered and weak
C29_MasteredNotWeak ==
    \A r \in Rules :
        \A weakRules \in getWeakRules(5) :
            ~(r \in Listed(getMasteredRules) /\ r \in Listed(weakRules))

\* one direction of the first half: status 'mastered' implies listed
C29_StatusImpliesListed ==
    \A r \in Rules :
        getRulePerformance(r).status = "mastered"
            => r \in Listed(getMasteredRules)

---------------------------------------------------------------------------
(* The useOpenAI hook (hooks/useOpenAI.js): its state object, the          *)
(* AbortController in abortControllerRef and the calls of                  *)
(* aiService.analyzeText whose promise is still pending.  Calls and        *)
(* controllers are numbered in the order they are made; the trace is the   *)
(* list of texts sent to the service.                                      *)

\* calls of the hook's analyzeText explored
MaxHookCalls == 3

\* texts handed to analyzeText: empty, blank, and two to analyze
HookTexts ==
    {<<>>, <<" ">>, <<"B", "o", "n", "j", "o", "u", "r">>,
     <<"J", "e", " ", "v", "a", "i", "s", " ", "à", " ", "l", "e", " ", "p", "a", "r", "c">>}

\* null in the fields of the state object; abortControllerRef.current is 0
\* while there is no controller
null == [null |-> TRUE]

\* the hook mounted, nothing asked yet
InitHook ==
    /\ localStorage = <<>>
    /\ now = 0
    /\ dstShift = 0
    /\ calls = NoCalls
    /\ practiced = {}
    /\ monotone = TRUE
    /\ sessions = NoSessions
    /\ serial = TRUE
    /\ request = Null
    /\ response = Null
    /\ tasks = [state |-> [loading |-> FALSE, error |-> null, result |-> null,
                           metadata |-> null],
                abortControllerRef |-> 0,
                aborted |-> {},
                pending |-> {},
                mounted |-> TRUE]
    /\ trace = <<>>

\* setState(next): React drops the update of an unmounted component
setState(next) == IF tasks.mounted THEN next ELSE tasks.state

\* abortControllerRef.current.abort(), if there is a controller.  No signal
\* of a controller is handed to aiService.analyzeText or to fetch, so abort
\* reaches no pending call.
abort ==
    IF tasks.abortControllerRef # 0
    THEN tasks.aborted \cup {tasks.abortControllerRef}
    ELSE tasks.aborted

\* analyzeText(text) of the hook up to its await
hookAnalyzeText(text) ==
    /\ Len(trace) < MaxHookCalls
    /\ IF trim(text) = <<>>
       THEN /\ tasks' = [tasks EXCEPT
                            !.state = setState([tasks.state EXCEPT
                                !.error = [message |-> "Please enter some text to analyze"]])]
            /\ trace' = trace
       ELSE /\ tasks' = [tasks EXCEPT
                            !.aborted = abort,
                            !.abortControllerRef = Len(trace) + 1,
                            !.state = setState([loading |-> TRUE, error |-> null,
                                                result |-> null, metadata |-> null]),
                            !.pending = @ \cup {Len(trace) + 1}]
            /\ trace' = Append(trace, text)
    /\ UNCHANGED <<localStorage, now, dstShift, calls, practiced, monotone,
                   sessions, serial, request, response>>

\* the promise of call k resolves: the lines after the await
serviceResolves(k) ==
    /\ k \in tasks.pending
    /\ tasks' = [tasks EXCEPT
                    !.pending = @ \ {k},
                    !.state = setState([loading |-> FALSE, error |-> null,
                                        result |-> [call |-> k, text |-> trace[k]],
                                        metadata |-> [call |-> k]])]
    /\ UNCHANGED <<localStorage, now, dstShift, calls, practiced, monotone,
                   sessions, serial, request, response, trace>>

\* the promise of call k rejects: the catch block
serviceRejects(k) ==
    /\ k \in tasks.pending
    /\ tasks' = [tasks EXCEPT
                    !.pending = @ \ {k},
                    !.state = setState([loading |-> FALSE,
                                        error |-> [call |-> k],
                                        result |-> null, metadata |-> null])]
    /\ UNCHANGED <<localStorage, now, dstShift, calls, practiced, monotone,
                   sessions, serial, request, response, trace>>

\* the component unmounts: the cleanup effect
unmount ==
    /\ tasks.mounted
    /\ tasks' = [tasks EXCEPT !.mounted = FALSE, !.aborted = abort]
    /\ UNCHANGED <<localStorage, now, dstShift, calls, practiced, monotone,
                   sessions, serial, request, response, trace>>

NextHook ==
    \/ \E text \in HookTexts : hookAnalyzeText(text)
    \/ \E k \in 1..MaxHookCalls : serviceResolves(k)
    \/ \E k \in 1..MaxHookCalls : serviceRejects(k)
    \/ unmount

SpecHook == InitHook /\ [][NextHook]_vars

\* the state shows the outcome of call k
OutcomeOf(k) ==
    /\ ~tasks.state.loading
    /\ \/ tasks.state.result = [call |-> k, text |-> trace[k]]
       \/ tasks.state.error = [call |-> k]

(* C30: when calls of the hook's analyzeText overlap, the earlier one is
   cancelled: while the most recent call is pending the state stays loading,
   and once every response has arrived the state shows the outcome of the
   most recent call, in whatever order the responses arrive. *)
C30_LatestCallWins ==
    (tasks.mounted /\ Len(trace) >= 1) =>
        IF Len(trace) \in tasks.pending
        THEN tasks.state.loading /\ tasks.state.result = null
        ELSE tasks.pending = {} => OutcomeOf(Len(trace))

====
